---- MODULE Spec2Model ----
(***************************************************************************)
(* Model of the movement-to-password pipeline of src/app.py                *)
(* (class MovementPasswordGenerator): semantic extraction, contextual      *)
(* modifiers, password assembly, strength assessment and the orchestrator  *)
(* generate_password.                                                      *)
(*                                                                         *)
(* A Python str is a sequence of characters.  An ASCII character is the    *)
(* one-character string; a non-ASCII character is the token "U+XXXX" of    *)
(* its code point, so Len counts code points exactly as Python's len.      *)
(* A Python dict is a function on its keys (a record).                     *)
(***************************************************************************)
EXTENDS Integers, Sequences, FiniteSets, TLC

VARIABLES
  password_generator,   \* the shared MovementPasswordGenerator instance (line 968): its fields
  hashSeed,             \* the interpreter's string-hash seed, fixed when the process starts
  pc,                   \* position of the generate_password call being served
  analysis_arg,         \* generate_password's argument movement_analysis
  summary_arg,          \* generate_password's argument movement_summary
  analysis_elements,    \* locals of generate_password
  summary_elements,
  combined_elements,
  extraction_analysis,
  modifiers,            \* generate_password's local contextual_modifiers
  assembly,             \* the password assemble_password returned, with the template it drew
  strength_analysis,    \* generate_password's local strength_analysis
  exception,            \* str(e) of the exception raised inside the try block, if any
  response,             \* the dict generate_password returns
  probe_input,          \* argument, context and result of a single function called on its own
  probe_context,
  probe_output,
  suspended,            \* frames of the generate_password calls of the threads not running now
  gemini_pc,            \* position of the analyze_with_gemini call being served
  max_retries,          \* analyze_with_gemini's argument, passed on to retry_with_backoff
  model_index,          \* analyze_with_gemini: position of model_name in models_to_try
  last_error,           \* analyze_with_gemini's local last_error
  attempt,              \* retry_with_backoff's loop variable
  retry_trace,          \* what the running retry_with_backoff did so far: calls of func, sleeps
  retry_result,         \* how the last retry_with_backoff ended: its value or its exception
  requests,             \* the generate_content requests sent, with what each came to
  gemini_result         \* how analyze_with_gemini ended: the response or the exception

vars == <<password_generator, hashSeed, pc, analysis_arg, summary_arg,
          analysis_elements, summary_elements, combined_elements, extraction_analysis,
          modifiers, assembly, strength_analysis, exception, response,
          probe_input, probe_context, probe_output, suspended,
          gemini_pc, max_retries, model_index, last_error, attempt, retry_trace,
          retry_result, requests, gemini_result>>
call_vars == <<analysis_arg, summary_arg, analysis_elements, summary_elements,
               combined_elements, extraction_analysis, modifiers, assembly,
               strength_analysis, exception, response>>
probe_vars == <<probe_input, probe_context, probe_output>>
thread_vars == <<suspended>>
gemini_vars == <<gemini_pc, max_retries, model_index, last_error, attempt, retry_trace,
                 retry_result, requests, gemini_result>>

(***************************************************************************)
(* Characters and the str methods the code uses                            *)
(***************************************************************************)
Chars(s) == [i \in 1..Len(s) |-> SubSeq(s, i, i)]

LowerLetters == "abcdefghijklmnopqrstuvwxyz"
UpperLetters == "ABCDEFGHIJKLMNOPQRSTUVWXYZ"
DecimalDigits == "0123456789"
HexDigits == "0123456789abcdef"

CharSet(s) == {SubSeq(s, i, i) : i \in 1..Len(s)}
LowerSet == CharSet(LowerLetters)
UpperSet == CharSet(UpperLetters)
DigitSet == CharSet(DecimalDigits)

IndexIn(s, c) == CHOOSE i \in 1..Len(s) : SubSeq(s, i, i) = c

\* Non-ASCII letters of the program's tables, as <<lower, upper>> pairs
\* (str.lower / str.upper of each other where Python maps them so).
UnicodeCasePairs ==
  { <<"U+00B5", "U+039C">>,   \* micro sign -> GREEK CAPITAL MU
    <<"U+00F1", "U+00D1">>,   \* n tilde
    <<"U+00FE", "U+00DE">>,   \* thorn
    <<"U+0159", "U+0158">>,   \* r caron
    <<"U+043C", "U+041C">>,   \* cyrillic em
    <<"U+03B8", "U+0398">>,   \* theta
    <<"U+03C8", "U+03A8">>,   \* psi
    <<"U+03C9", "U+03A9">>,   \* omega
    <<"U+03C3", "U+03A3">>,   \* sigma
    <<"U+03B1", "U+0391">>,   \* alpha
    <<"U+03B2", "U+0392">>,   \* beta
    <<"U+03B3", "U+0393">>,   \* gamma
    <<"U+03B4", "U+0394">>,   \* delta
    <<"U+03B5", "U+0395">> }  \* epsilon
UnicodeLower == {p[1] : p \in UnicodeCasePairs}
UnicodeUpper == {p[2] : p \in UnicodeCasePairs}

\* str.isalpha, str.isdigit on one character
\* sharp s: a lower-case letter with no upper-case letter of its own, upper() is "SS"
SharpS == "U+00DF"
IsAlphaChar(c) == c \in LowerSet \cup UpperSet \cup UnicodeLower \cup UnicodeUpper \cup {SharpS}
IsDigitChar(c) == c \in DigitSet
\* regex \w and \s on one character
IsWordChar(c) == IsAlphaChar(c) \/ IsDigitChar(c) \/ c = "_"
IsSpaceChar(c) == c \in {" ", "\n", "\t"}

UpperChar(c) ==
  IF c \in LowerSet THEN SubSeq(UpperLetters, IndexIn(LowerLetters, c), IndexIn(LowerLetters, c))
  ELSE IF c \in UnicodeLower THEN (CHOOSE p \in UnicodeCasePairs : p[1] = c)[2]
  ELSE c
LowerChar(c) ==
  IF c \in UpperSet THEN SubSeq(LowerLetters, IndexIn(UpperLetters, c), IndexIn(UpperLetters, c))
  ELSE IF c = "U+039C" THEN "U+03BC"   \* capital mu lowers to small mu, not the micro sign
  ELSE IF c \in UnicodeUpper THEN (CHOOSE p \in UnicodeCasePairs : p[2] = c)[1]
  ELSE c
Lower(s) == [i \in 1..Len(s) |-> LowerChar(s[i])]
\* str.upper() of one character, as a str: one character, or two for the sharp s
UpperStr(c) == IF c = SharpS THEN <<"S", "S">> ELSE <<UpperChar(c)>>

\* ord() of a character
PunctuationOrd ==
  [c \in {" ", "!", "#", "$", "%", ",", "-", ".", "@", "_", "~"} |->
     CASE c = " " -> 32 [] c = "!" -> 33 [] c = "#" -> 35 [] c = "$" -> 36
       [] c = "%" -> 37 [] c = "," -> 44 [] c = "-" -> 45 [] c = "." -> 46
       [] c = "@" -> 64 [] c = "_" -> 95 [] c = "~" -> 126]
HexValue(s) ==
  LET d(i) == IndexIn("0123456789ABCDEF", SubSeq(s, i, i)) - 1
  IN  ((d(3) * 16 + d(4)) * 16 + d(5)) * 16 + d(6)
Ord(c) ==
  IF c \in LowerSet THEN 96 + IndexIn(LowerLetters, c)
  ELSE IF c \in UpperSet THEN 64 + IndexIn(UpperLetters, c)
  ELSE IF c \in DigitSet THEN 47 + IndexIn(DecimalDigits, c)
  ELSE IF c \in DOMAIN PunctuationOrd THEN PunctuationOrd[c]
  ELSE HexValue(c)

\* str(n) for a natural number
RECURSIVE Str(_)
Str(n) ==
  IF n < 10 THEN <<SubSeq(DecimalDigits, n + 1, n + 1)>>
  ELSE Str(n \div 10) \o <<SubSeq(DecimalDigits, (n % 10) + 1, (n % 10) + 1)>>

\* s[:n], s[a:b] (0-based, end exclusive), s.endswith, s.startswith, x in s
Take(s, n) == SubSeq(s, 1, IF n < Len(s) THEN n ELSE Len(s))
Slice(s, a, b) == SubSeq(s, a + 1, IF b < Len(s) THEN b ELSE Len(s))
EndsWith(s, suf) == Len(s) >= Len(suf) /\ SubSeq(s, Len(s) - Len(suf) + 1, Len(s)) = suf
StartsWith(s, pre) == Len(s) >= Len(pre) /\ SubSeq(s, 1, Len(pre)) = pre
Contains(s, sub) == \E i \in 1..(Len(s) - Len(sub) + 1) : SubSeq(s, i, i + Len(sub) - 1) = sub
RECURSIVE Concat(_)
Concat(ss) == IF ss = <<>> THEN <<>> ELSE Head(ss) \o Concat(Tail(ss))
RECURSIVE Join(_, _)
Join(sep, ss) ==
  IF ss = <<>> THEN <<>>
  ELSE IF Len(ss) = 1 THEN ss[1] ELSE ss[1] \o sep \o Join(sep, Tail(ss))
Range(s) == {s[i] : i \in DOMAIN s}
Upper(s) == Concat([i \in 1..Len(s) |-> UpperStr(s[i])])
InList(x, list) == \E i \in DOMAIN list : list[i] = x
WordList(strs) == [i \in DOMAIN strs |-> Chars(strs[i])]

(***************************************************************************)
(* list(set(xs)): the iteration order of a set of strings is fixed by the  *)
(* interpreter's per-process string-hash seed and, for colliding entries,  *)
(* by insertion order.  StrHash stands for the seeded hash of the process. *)
(***************************************************************************)
SetTableSize == 8
RECURSIVE SumOrd(_)
SumOrd(s) == IF s = <<>> THEN 0 ELSE (Ord(Head(s)) + 3 * SumOrd(Tail(s))) % 1009
StrHash(seed, s) == (SumOrd(s) * (2 * seed + 1) + 5 * seed * Len(s)) % 1009
RECURSIVE Dedup(_)
Dedup(xs) ==
  IF xs = <<>> THEN <<>>
  ELSE LET r == Dedup(SubSeq(xs, 1, Len(xs) - 1))
       IN  IF InList(xs[Len(xs)], r) THEN r ELSE Append(r, xs[Len(xs)])
RECURSIVE BySlot(_, _, _)
BySlot(seed, xs, k) ==
  IF k = SetTableSize THEN <<>>
  ELSE SelectSeq(xs, LAMBDA e : StrHash(seed, e) % SetTableSize = k) \o BySlot(seed, xs, k + 1)
ListOfSet(seed, xs) == BySlot(seed, Dedup(xs), 0)

(***************************************************************************)
(* MovementPasswordGenerator.__init__: the generator's tables              *)
(***************************************************************************)
char_substitutions ==
  [basic |-> [c \in {"a", "e", "i", "o", "s", "t", "l", "g", "b"} |->
                CASE c = "a" -> "@" [] c = "e" -> "3" [] c = "i" -> "!" [] c = "o" -> "0"
                  [] c = "s" -> "$" [] c = "t" -> "7" [] c = "l" -> "1" [] c = "g" -> "9"
                  [] c = "b" -> "6"],
   advanced |-> [c \in {"u", "n", "c", "y", "p", "r", "m"} |->
                CASE c = "u" -> "U+00B5" [] c = "n" -> "U+00F1" [] c = "c" -> "U+00A2"
                  [] c = "y" -> "U+00A5" [] c = "p" -> "U+00FE" [] c = "r" -> "U+0159"
                  [] c = "m" -> "U+043C"],
   contextual |-> [w \in {Chars("walk"), Chars("move"), Chars("turn"), Chars("step"), Chars("wave")} |->
                CASE w = Chars("walk") -> Chars("w4lk") [] w = Chars("move") -> Chars("m0v3")
                  [] w = Chars("turn") -> Chars("7urn") [] w = Chars("step") -> Chars("57ep")
                  [] w = Chars("wave") -> Chars("w4v3")]]

movement_biometrics ==
  << WordList(<<"stride", "cadence", "pace", "rhythm", "flow">>),
     WordList(<<"sync", "balance", "stability", "fluidity", "precision">>),
     WordList(<<"vigorous", "gentle", "explosive", "sustained", "irregular">>),
     WordList(<<"linear", "curved", "angular", "circular", "spiral">>) >>

\* A whole-word pattern \b(...)\b is either a suffix pattern (\w+ing) or a word list
\* (an optional trailing s? written out, longest first as the regex tries it).
SuffixPattern(suf) == [kind |-> "suffix", suffix |-> Chars(suf), words |-> <<>>]
WordsPattern(ws) == [kind |-> "words", suffix |-> <<>>, words |-> WordList(ws)]
movement_patterns ==
  << SuffixPattern("ing"),
     SuffixPattern("ed"),
     WordsPattern(<<"moves", "move", "steps", "step", "turns", "turn", "bends", "bend",
                    "lifts", "lift", "waves", "wave", "raises", "raise", "lowers", "lower">>),
     WordsPattern(<<"swings", "swing", "rotates", "rotate", "extends", "extend",
                    "stretches", "stretche", "balances", "balance", "gestures", "gesture">>),
     WordsPattern(<<"moving", "walking", "running", "jumping", "reaching", "pointing", "waving">>),
     WordsPattern(<<"turning", "bending", "stretching", "lifting", "lowering", "raising">>),
     WordsPattern(<<"swinging", "rotating", "extending", "balancing", "stepping", "gesturing">>) >>

contextual_terms ==
  [body_parts |-> WordList(<<"arm", "hand", "leg", "foot", "head", "torso", "body",
                             "shoulder", "knee", "elbow">>),
   directions |-> WordList(<<"left", "right", "up", "down", "forward", "backward",
                             "above", "below", "side">>),
   intensities |-> WordList(<<"gentle", "rapid", "slow", "quick", "smooth", "abrupt",
                              "rhythmic", "steady">>)]

password_templates ==
  << <<"action", "_", "modifier", "_", "context", "_", "random">>,
     <<"action", "context", "_", "modifier", "random">>,
     <<"modifier", "_", "action", "_", "random", "_", "context">>,
     <<"random", "action", "_", "context", "_", "modifier">> >>

\* The instance __init__ builds; self is the shared instance every method reads
MovementPasswordGenerator ==
  [char_substitutions |-> char_substitutions,
   movement_biometrics |-> movement_biometrics,
   movement_patterns |-> movement_patterns,
   contextual_terms |-> contextual_terms,
   password_templates |-> password_templates]
self == password_generator

(***************************************************************************)
(* re.findall on the lower-cased text.  Every pattern of the code is       *)
(* anchored by \b on maximal \w runs, so the text is cut into its words;   *)
(* gap is the text between a word and the next one.                        *)
(***************************************************************************)
RECURSIVE SortedList(_)
SortedList(S) ==
  IF S = {} THEN <<>>
  ELSE LET m == CHOOSE x \in S : \A y \in S : x <= y
       IN  <<m>> \o SortedList(S \ {m})
WordStarts(t) == {i \in 1..Len(t) : IsWordChar(t[i]) /\ (i = 1 \/ ~IsWordChar(t[i - 1]))}
WordEndAt(t, i) ==
  CHOOSE j \in i..Len(t) : /\ \A k \in i..j : IsWordChar(t[k])
                           /\ (j = Len(t) \/ ~IsWordChar(t[j + 1]))
Tokens(t) ==
  LET st == SortedList(WordStarts(t))
  IN  [k \in 1..Len(st) |->
         LET e == WordEndAt(t, st[k])
             nxt == IF k < Len(st) THEN st[k + 1] ELSE Len(t) + 1
         IN  [w |-> SubSeq(t, st[k], e), gap |-> SubSeq(t, e + 1, nxt - 1)]]
\* re.findall(r'\b\w+\b', t)
Words(t) == LET toks == Tokens(t) IN [k \in 1..Len(toks) |-> toks[k].w]
\* word k is followed by \s+ and then another word
WsGap(toks, k) ==
  /\ k < Len(toks)
  /\ toks[k].gap # <<>>
  /\ \A i \in 1..Len(toks[k].gap) : IsSpaceChar(toks[k].gap[i])
WholeWordMatch(p, w) ==
  IF p.kind = "suffix" THEN Len(w) > Len(p.suffix) /\ EndsWith(w, p.suffix)
  ELSE InList(w, p.words)
FindWholeWords(p, t) == SelectSeq(Words(t), LAMBDA w : WholeWordMatch(p, w))
\* re.findall(r'\b(A)\s+(B)\b', t): a word matching first, whitespace, a word matching
\* second; both words are consumed.  Returns the <<first, second>> pairs.
RECURSIVE PairScan(_, _, _, _)
PairScan(toks, first, second, i) ==
  IF i > Len(toks) THEN <<>>
  ELSE IF WholeWordMatch(first, toks[i].w) /\ WsGap(toks, i) /\ WholeWordMatch(second, toks[i + 1].w)
       THEN << <<toks[i].w, toks[i + 1].w>> >> \o PairScan(toks, first, second, i + 2)
       ELSE PairScan(toks, first, second, i + 1)

(***************************************************************************)
(* Semantic extraction (src/app.py 145-262)                                *)
(***************************************************************************)
\* The body-part pattern of _extract_actions_dynamically,
\*   \b\w+\b(?:\s+\w+){0,4}\s+BP | \bBP\b(?:\s+\w+){0,4}\s+\w+ing\b
\* scanned left to right: at word i the first alternative is tried with the most
\* intervening words first, then the second; a match consumes its words.
\* Returns match.split() of every match.
MaxOf(S) == CHOOSE x \in S : \A y \in S : y <= x
RECURSIVE BodyPartScan(_, _, _)
BodyPartScan(toks, bp, i) ==
  IF i > Len(toks) THEN <<>>
  ELSE LET N == Len(toks)
           Linked(a, b) == \A j \in a..b : WsGap(toks, j)
           K1 == {k \in 0..4 : /\ i + k + 1 <= N
                               /\ Linked(i, i + k)
                               /\ StartsWith(toks[i + k + 1].w, bp)}
           K2 == {k \in 0..4 : /\ toks[i].w = bp
                               /\ i + k + 1 <= N
                               /\ Linked(i, i + k)
                               /\ WholeWordMatch(SuffixPattern("ing"), toks[i + k + 1].w)}
       IN  IF K1 # {}
           THEN << [j \in 1..(MaxOf(K1) + 1) |-> toks[i + j - 1].w] \o <<bp>> >>
                \o BodyPartScan(toks, bp, i + MaxOf(K1) + 2)
           ELSE IF K2 # {}
           THEN << [j \in 1..(MaxOf(K2) + 2) |-> toks[i + j - 1].w] >>
                \o BodyPartScan(toks, bp, i + MaxOf(K2) + 2)
           ELSE BodyPartScan(toks, bp, i + 1)

RECURSIVE ContextualActions(_, _)
ContextualActions(text, k) ==
  IF k > Len(self.contextual_terms.body_parts) THEN <<>>
  ELSE LET body_part == self.contextual_terms.body_parts[k]
           matches == BodyPartScan(Tokens(text), body_part, 1)
           found == SelectSeq(Concat(matches),
                      LAMBDA word : \/ EndsWith(word, Chars("ing"))
                                    \/ InList(word, WordList(<<"moves", "turns", "lifts", "waves">>)))
       IN  (IF Contains(text, body_part) THEN found ELSE <<>>)
           \o ContextualActions(text, k + 1)

RECURSIVE PatternActions(_, _)
PatternActions(text, k) ==
  IF k > Len(self.movement_patterns) THEN <<>>
  ELSE SelectSeq(FindWholeWords(self.movement_patterns[k], text), LAMBDA m : Len(m) > 2)
       \o PatternActions(text, k + 1)

IsAlphaStr(s) == s # <<>> /\ \A i \in 1..Len(s) : IsAlphaChar(s[i])

_extract_actions_dynamically(seed, text) ==
  LET actions == ListOfSet(seed, PatternActions(text, 1) \o ContextualActions(text, 1))
      filtered_actions ==
        SelectSeq(actions, LAMBDA action :
          /\ Len(action) >= 3
          /\ IsAlphaStr(action)
          /\ \/ \E suffix \in {Chars("ing"), Chars("ed")} : EndsWith(action, suffix)
             \/ \E root \in {Chars("move"), Chars("turn"), Chars("lift"), Chars("wave"), Chars("step")} :
                  Contains(action, root))
  IN  ListOfSet(seed, filtered_actions)

\* r'\b(counter-clockwise|...)\b' over the words: "counter", "-", "clockwise"
RECURSIVE OrientationScan(_, _)
OrientationScan(toks, i) ==
  IF i > Len(toks) THEN <<>>
  ELSE IF InList(toks[i].w, WordList(<<"upward", "downward", "sideways", "clockwise">>))
       THEN <<toks[i].w>> \o OrientationScan(toks, i + 1)
       ELSE IF /\ toks[i].w = Chars("counter")
               /\ i < Len(toks)
               /\ toks[i].gap = <<"-">>
               /\ toks[i + 1].w = Chars("clockwise")
       THEN <<Chars("counter-clockwise")>> \o OrientationScan(toks, i + 2)
       ELSE OrientationScan(toks, i + 1)
\* r'\b(above|below|beside|near|against|towards?)\s+\w+': group 1; the next word is consumed
RECURSIVE RelationScan(_, _)
RelationScan(toks, i) ==
  IF i > Len(toks) THEN <<>>
  ELSE IF /\ InList(toks[i].w, WordList(<<"above", "below", "beside", "near", "against",
                                           "towards", "toward">>))
          /\ WsGap(toks, i)
       THEN <<toks[i].w>> \o RelationScan(toks, i + 2)
       ELSE RelationScan(toks, i + 1)

_extract_contextual_descriptors(seed, text) ==
  LET Present(terms) == SelectSeq(terms, LAMBDA term : Contains(text, term))
      descriptors ==
        Present(self.contextual_terms.body_parts) \o Present(self.contextual_terms.directions)
        \o Present(self.contextual_terms.intensities)
        \o RelationScan(Tokens(text), 1)
        \o OrientationScan(Tokens(text), 1)
        \o FindWholeWords(WordsPattern(<<"horizontal", "vertical", "diagonal", "circular">>), text)
  IN  ListOfSet(seed, descriptors)

_extract_movement_qualifiers(seed, text) ==
  LET quality ==
        FindWholeWords(WordsPattern(<<"smooth", "rough", "jerky", "fluid", "stiff", "relaxed", "tense">>), text)
        \o FindWholeWords(WordsPattern(<<"quick", "slow", "rapid", "gradual", "sudden", "gentle">>), text)
        \o FindWholeWords(WordsPattern(<<"rhythmic", "erratic", "steady", "consistent", "irregular">>), text)
        \o FindWholeWords(WordsPattern(<<"natural", "forced", "effortless", "deliberate">>), text)
      comparative ==
        PairScan(Tokens(text), SuffixPattern("er"), WordsPattern(<<"than", "movement">>), 1)
        \o PairScan(Tokens(text), WordsPattern(<<"more", "less">>), SuffixPattern("ly"), 1)
      qualifiers == quality \o SelectSeq(Concat(comparative), LAMBDA word : Len(word) > 2)
  IN  ListOfSet(seed, qualifiers)

\* the extraction returning the whole lists, no slice taken
extract_semantic_elements_uncut(seed, movement_description) ==
  LET text == Lower(movement_description)
  IN  [actions |-> _extract_actions_dynamically(seed, text),
       descriptors |-> _extract_contextual_descriptors(seed, text),
       qualifiers |-> _extract_movement_qualifiers(seed, text),
       full_text |-> text]
\* extract_semantic_elements on a str
extract_semantic_elements(seed, movement_description) ==
  LET text == Lower(movement_description)
  IN  [actions |-> Take(_extract_actions_dynamically(seed, text), 3),
       descriptors |-> Take(_extract_contextual_descriptors(seed, text), 3),
       qualifiers |-> Take(_extract_movement_qualifiers(seed, text), 2),
       full_text |-> text]

(***************************************************************************)
(* Library functions the pipeline calls                                    *)
(***************************************************************************)
\* dict.get(key, default) and Python truthiness of a str value under a key
Get(d, k, default) == IF k \in DOMAIN d THEN d[k] ELSE default
Truthy(d, k) == k \in DOMAIN d /\ d[k] # <<>>

\* hashlib.sha256(s).hexdigest() / hashlib.md5(s).hexdigest(): a fixed function from
\* the input string to lowercase hex characters.  The digest function itself is not
\* part of the repository; HexDigest stands for it (same input, same digest;
\* only the leading characters the code slices off are computed).
RECURSIVE Mix(_, _)
Mix(h, s) == IF s = <<>> THEN h ELSE Mix((h * 31 + Ord(Head(s))) % 65521, Tail(s))
HexDigest(salt, s, n) ==
  [k \in 1..n |->
     LET d == (((Mix(salt, s) + k) * (2 * k + 1)) \div 3) % 16
     IN  SubSeq(HexDigits, d + 1, d + 1)]
sha256_hexdigest(s) == HexDigest(6661, s, 8)
md5_hexdigest(s) == HexDigest(911, s, 4)

\* secrets.token_hex(n): n random bytes as 2n hex characters.  A draw is one of the
\* first MaxTokenValues entries of TokenValues, cut to the n bytes asked for.
MaxTokenValues == 2
TokenValues == <<Chars("3ea70cf9"), Chars("a7d15b02"), Chars("00fe9c48"), Chars("c4b2e681")>>
token_hex(n) == {Take(TokenValues[i], 2 * n) : i \in 1..MaxTokenValues}

(***************************************************************************)
(* Contextual modifiers (src/app.py 264-381)                               *)
(***************************************************************************)
\* _generate_movement_entropy; fallback_hash is the draw of secrets.token_hex(2)
CountMovementTypes(text_lower) ==
  Cardinality({<<c, k>> \in (1..Len(self.movement_biometrics)) \X (1..5) :
                 Contains(text_lower, self.movement_biometrics[c][k])})
\* the thresholds with >= in place of >
ComplexityLevelInclusive(movement_types) ==
  IF movement_types >= 5 THEN "high" ELSE IF movement_types >= 2 THEN "medium" ELSE "low"
ComplexityLevel(movement_types) ==
  IF movement_types > 5 THEN "high" ELSE IF movement_types > 2 THEN "medium" ELSE "low"
_generate_movement_entropy(movement_text, fallback_hash) ==
  IF movement_text = <<>>
  THEN [pattern_hash |-> fallback_hash, complexity |-> "low"]
  ELSE LET text_lower == Lower(movement_text)
           movement_types == CountMovementTypes(text_lower)
           movement_words == Words(text_lower)
           pattern_signature ==
             Take([i \in 1..Len(SelectSeq(movement_words, LAMBDA word : Len(word) > 3)) |->
                     SelectSeq(movement_words, LAMBDA word : Len(word) > 3)[i][1]], 8)
           movement_hash == Take(md5_hexdigest(pattern_signature \o Str(movement_types)), 3)
       IN  [pattern_hash |-> movement_hash,
            complexity |-> ComplexityLevel(movement_types),
            movement_types |-> movement_types,
            signature |-> Take(pattern_signature, 4)]

\* _analyze_behavioral_patterns
coordination_indicators == WordList(<<"smooth", "coordinated", "synchronized", "balanced", "stable">>)
energy_indicators == WordList(<<"quick", "slow", "vigorous", "gentle", "explosive", "sustained">>)
precision_indicators == WordList(<<"precise", "deliberate", "controlled", "natural", "fluid">>)
\* the thresholds with >= in place of >
ConfidenceLevelInclusive(complexity_score) ==
  IF complexity_score >= 8 THEN "high" ELSE IF complexity_score >= 4 THEN "medium" ELSE "low"
ConfidenceLevel(complexity_score) ==
  IF complexity_score > 8 THEN "high" ELSE IF complexity_score > 4 THEN "medium" ELSE "low"
_analyze_behavioral_patterns(seed, movement_text) ==
  IF movement_text = <<>>
  THEN [complexity_score |-> Chars("0"), confidence |-> "low"]
  ELSE LET text_lower == Lower(movement_text)
           Hits(indicators) == SelectSeq(indicators, LAMBDA indicator : Contains(text_lower, indicator))
           c == Len(Hits(coordination_indicators))
           e == Len(Hits(energy_indicators))
           p == Len(Hits(precision_indicators))
           complexity_score == 2 * c + 3 * e + 1 * p
           behavioral_features ==
             [i \in 1..c |-> <<"C">>] \o [i \in 1..e |-> <<"E">>] \o [i \in 1..p |-> <<"P">>]
           joined == Take(Concat(ListOfSet(seed, behavioral_features)), 3)
       IN  [complexity_score |-> Str(complexity_score),
            signature |-> IF joined # <<>> THEN joined ELSE Chars("GEN"),
            confidence |-> ConfidenceLevel(complexity_score),
            features_detected |-> Len(behavioral_features)]

\* the modifiers with the weekday and day of the month mixed into the hash as well
generate_contextual_modifiers_dated(seed, movement_analysis, now, fallback_hash, session) ==
  LET temporal_context ==
        [micro_time |-> Take(Str(now.microsecond), 3),
         compound_time |-> Str(now.hour) \o Str(now.minute) \o Str(now.second),
         cyclical |-> Str(now.weekday) \o Str(now.day % 7),
         seasonal |-> Str(now.month) \o Str((now.day \div 7) + 1)]
      movement_entropy == _generate_movement_entropy(movement_analysis, fallback_hash)
      behavioral_signature == _analyze_behavioral_patterns(seed, movement_analysis)
      entropy_sources ==
        << temporal_context.compound_time,
           movement_entropy.pattern_hash,
           behavioral_signature.complexity_score,
           temporal_context.micro_time,
           temporal_context.cyclical >>
      combined_hash == sha256_hexdigest(Concat(entropy_sources))
  IN  [temporal |-> Slice(combined_hash, 0, 4),
       movement_entropy |-> movement_entropy,
       behavioral_signature |-> behavioral_signature,
       session |-> session,
       compound_modifier |-> Slice(combined_hash, 4, 8)]
\* generate_contextual_modifiers; now is the datetime.now() read, fallback_hash and
\* session the draws of secrets.token_hex(2) and secrets.token_hex(3)
generate_contextual_modifiers(seed, movement_analysis, now, fallback_hash, session) ==
  LET temporal_context ==
        [micro_time |-> Take(Str(now.microsecond), 3),
         compound_time |-> Str(now.hour) \o Str(now.minute) \o Str(now.second),
         cyclical |-> Str(now.weekday) \o Str(now.day % 7),
         seasonal |-> Str(now.month) \o Str((now.day \div 7) + 1)]
      movement_entropy == _generate_movement_entropy(movement_analysis, fallback_hash)
      behavioral_signature == _analyze_behavioral_patterns(seed, movement_analysis)
      entropy_sources ==
        << temporal_context.compound_time,
           movement_entropy.pattern_hash,
           behavioral_signature.complexity_score,
           temporal_context.micro_time >>
      combined_hash == sha256_hexdigest(Concat(entropy_sources))
  IN  [temporal |-> Slice(combined_hash, 0, 4),
       movement_entropy |-> movement_entropy,
       behavioral_signature |-> behavioral_signature,
       session |-> session,
       compound_modifier |-> Slice(combined_hash, 4, 8)]

(***************************************************************************)
(* Password assembly (src/app.py 383-743).  A function that draws from     *)
(* random / secrets is the set of the values it can return.                *)
(***************************************************************************)
MaxInt(a, b) == IF a >= b THEN a ELSE b
MinOf(S) == CHOOSE x \in S : \A y \in S : x <= y

movement_transform ==
  [c \in {"w", "s", "r", "l", "m", "u", "d", "f"} |->
     CASE c = "w" -> "U+223F" [] c = "s" -> "~" [] c = "r" -> "U+21BB" [] c = "l" -> "U+21BA"
       [] c = "m" -> "U+2195" [] c = "u" -> "U+2191" [] c = "d" -> "U+2193" [] c = "f" -> "U+2192"]

\* The loop of apply_entropy_randomization from index i (0-based) on: done is
\* ''.join(result[:i]), rest is result[i:] as text.lower() gave it.  At each character
\* every phase whose guard holds may fire (its random.random() draw falls under the
\* threshold) or not; a phase that fires puts a str in the place of the character.
RECURSIVE RandomizeFrom(_, _, _, _, _)
RandomizeFrom(done, rest, i, changes_made, max_changes) ==
  IF rest = <<>> \/ changes_made >= max_changes THEN {done \o rest}
  ELSE LET char == Head(rest)
           Changed(str) ==
             RandomizeFrom(done \o str, Tail(rest), i + 1, changes_made + 1, max_changes)
           phase1 == IF char \in DOMAIN self.char_substitutions.basic
                     THEN Changed(<<self.char_substitutions.basic[char]>>) ELSE {}
           phase2 == IF char \in DOMAIN self.char_substitutions.advanced
                     THEN Changed(<<self.char_substitutions.advanced[char]>>) ELSE {}
           phase3 == IF IsAlphaChar(char)
                     THEN Changed(IF i % 2 = 0 THEN UpperStr(char) ELSE Str(Ord(char) % 10))
                     ELSE {}
           phase4 == IF IsAlphaChar(char) /\ char \in DOMAIN movement_transform
                     THEN Changed(<<movement_transform[char]>>) ELSE {}
           unchanged ==
             RandomizeFrom(done \o <<char>>, Tail(rest), i + 1, changes_made, max_changes)
       IN  phase1 \cup phase2 \cup phase3 \cup phase4 \cup unchanged

\* int(len(text) * entropy_level), entropy_level given in percent
MaxChanges(text, entropy_percent) == MaxInt(1, (Len(text) * entropy_percent) \div 100)
apply_entropy_randomization(text, entropy_percent, context) ==
  IF text = <<>> THEN {text}
  ELSE IF context = "movement" /\ Lower(text) \in DOMAIN self.char_substitutions.contextual
  THEN {self.char_substitutions.contextual[Lower(text)]}
  ELSE RandomizeFrom(<<>>, Lower(text), 0, 0, MaxChanges(text, entropy_percent))

generate_biometric_hash(semantic_elements, behavioral_data) ==
  LET actions == Get(semantic_elements, "actions", <<>>)
      action_signature == Concat([i \in 1..Len(Take(actions, 3)) |-> UpperStr(actions[i][1])])
      biometric_string ==
        (IF actions # <<>> THEN action_signature ELSE <<>>)
        \o (IF Truthy(behavioral_data, "complexity_score") THEN behavioral_data.complexity_score ELSE <<>>)
        \o (IF Truthy(behavioral_data, "signature") THEN behavioral_data.signature ELSE <<>>)
  IN  IF biometric_string # <<>> THEN {Take(sha256_hexdigest(biometric_string), 6)}
      ELSE token_hex(3)

_select_primary_action(actions) ==
  LET priority_actions == WordList(<<"walking", "running", "jumping", "waving", "pointing", "turning">>)
      Hits(k) == SelectSeq(actions, LAMBDA action : Contains(action, priority_actions[k]))
      found == {k \in 1..Len(priority_actions) : Hits(k) # <<>>}
      longest == CHOOSE i \in 1..Len(actions) :
                   /\ \A j \in 1..Len(actions) : Len(actions[j]) <= Len(actions[i])
                   /\ \A j \in 1..(i - 1) : Len(actions[j]) < Len(actions[i])
  IN  IF found # {} THEN Hits(MinOf(found))[1]
      ELSE IF actions # <<>> THEN actions[longest] ELSE Chars("move")

_extract_multi_source_descriptor(semantic_elements) ==
  LET descriptors ==
        IF Get(semantic_elements, "qualifiers", <<>>) # <<>>
        THEN apply_entropy_randomization(Take(semantic_elements.qualifiers[1], 5), 30, "general")
        ELSE IF semantic_elements.descriptors # <<>>
        THEN apply_entropy_randomization(Take(semantic_elements.descriptors[1], 4), 35, "general")
        ELSE IF Len(semantic_elements.actions) > 1
        THEN apply_entropy_randomization(Take(semantic_elements.actions[2], 4), 40, "general")
        ELSE {<<>>}
  IN  {IF descriptor # <<>> THEN descriptor ELSE <<"d", "U+03A8", "n">> : descriptor \in descriptors}

_create_advanced_movement_signature(semantic_elements, contextual_modifiers) ==
  LET actions == Take(Get(semantic_elements, "actions", <<>>), 2)
      initials == Concat([i \in 1..Len(actions) |-> UpperStr(actions[i][1])])
      behavioral_sig == Get(contextual_modifiers, "behavioral_signature", <<>>)
      movement_entropy == Get(contextual_modifiers, "movement_entropy", <<>>)
      complexity == Get(movement_entropy, "complexity", "medium")
      signature_components ==
        initials
        \o (IF Truthy(behavioral_sig, "signature") THEN Take(behavioral_sig.signature, 2) ELSE <<>>)
        \o (IF Truthy(movement_entropy, "signature") THEN Take(movement_entropy.signature, 2) ELSE <<>>)
        \o (IF complexity = "high" THEN <<"U+03A9">>
            ELSE IF complexity = "low" THEN <<"U+03B1">> ELSE <<>>)
      base_signature == IF signature_components # <<>> THEN signature_components ELSE <<"M", "U+03A3">>
  IN  Take(md5_hexdigest(base_signature), 4)

\* A template is the sequence of its parts: "_" is the literal, any other part a slot.
high_security_templates ==
  << <<"action", "_", "biometric", "_", "temporal", "_", "random">>,
     <<"biometric", "action", "_", "entropy", "_", "behavioral">>,
     <<"signature", "action", "_", "temporal", "biometric">>,
     <<"action", "_", "behavioral", "_", "entropy", "_", "signature">> >>
\* the templates __init__ stores in self.password_templates, which have a context slot
medium_security_templates_of_init == password_templates
medium_security_templates ==
  << <<"action", "_", "modifier", "_", "temporal", "_", "random">>,
     <<"action", "signature", "_", "entropy", "_", "random">>,
     <<"modifier", "_", "action", "_", "biometric", "_", "temporal">> >>
\* the condition asking for more than 2 actions
UseHighSecurityOverTwo(semantic_elements, contextual_modifiers) ==
  LET behavioral_confidence ==
        Get(Get(contextual_modifiers, "behavioral_signature", <<>>), "confidence", "low")
      movement_complexity ==
        Get(Get(contextual_modifiers, "movement_entropy", <<>>), "complexity", "medium")
  IN  /\ behavioral_confidence \in {"high", "medium"}
      /\ movement_complexity \in {"high", "medium"}
      /\ Len(Get(semantic_elements, "actions", <<>>)) > 2
UseHighSecurity(semantic_elements, contextual_modifiers) ==
  LET behavioral_confidence ==
        Get(Get(contextual_modifiers, "behavioral_signature", <<>>), "confidence", "low")
      movement_complexity ==
        Get(Get(contextual_modifiers, "movement_entropy", <<>>), "complexity", "medium")
  IN  /\ behavioral_confidence \in {"high", "medium"}
      /\ movement_complexity \in {"high", "medium"}
      /\ Len(Get(semantic_elements, "actions", <<>>)) >= 2
_select_security_optimal_template(semantic_elements, contextual_modifiers) ==
  IF UseHighSecurity(semantic_elements, contextual_modifiers)
  THEN Range(high_security_templates) ELSE Range(medium_security_templates)

\* str.format(**components): KeyError when a slot is no key of components
FormatRaisesKeyError(template, components) ==
  \E i \in 1..Len(template) : template[i] # "_" /\ template[i] \notin DOMAIN components
Format(template, components) ==
  Concat([i \in 1..Len(template) |-> IF template[i] = "_" THEN <<"_">> ELSE components[template[i]]])
\* _dynamic_password_assembly: the KeyError is caught and the canonical template is
\* rendered, its defaults drawn by secrets.token_hex(2)
_dynamic_password_assembly(template, components) ==
  IF ~FormatRaisesKeyError(template, components) THEN {Format(template, components)}
  ELSE {Format(<<"action", "_", "biometric", "_", "temporal", "_", "random">>,
               [action |-> Get(components, "action", <<"m", "U+0398", "v">>),
                biometric |-> Get(components, "biometric", Chars("B10")),
                temporal |-> Get(components, "temporal", d1),
                random |-> Get(components, "random", d2)])
        : d1 \in token_hex(2), d2 \in token_hex(2)}

\* Character classes of the regular expressions
SpecialChars == CharSet("!@#$%^&*()_+-=[]{}|;:,.<>?")
KineticChars == {"U+03A9", "U+223F", "U+21BB", "U+21BA", "U+2195", "U+2191", "U+2193", "U+2192"}
GreekChars == {"U+0398", "U+2211", "U+03A8", "U+03B1", "U+03B2", "U+03B3", "U+03B4", "U+03B5"}
BiometricChars == KineticChars \cup {"U+0398", "U+03A8", "U+03B1", "U+03B2", "U+03B3", "U+03B4", "U+03B5"}
HasAny(password, class) == \E i \in 1..Len(password) : password[i] \in class

\* while len(password) < n: password += secrets.token_hex(1)
RECURSIVE PadTo(_, _)
PadTo(password, n) ==
  IF Len(password) >= n THEN {password}
  ELSE UNION {PadTo(password \o b, n) : b \in token_hex(1)}

ensure_complexity(password) ==
  LET special == IF ~HasAny(password, SpecialChars)
                 THEN {Append(password, c) : c \in {"!", "@", "#", "$", "%"}}
                 ELSE {password}
      digit == UNION {IF ~HasAny(p, DigitSet) THEN {p \o Str(d) : d \in 0..9} ELSE {p} : p \in special}
      upper == {IF ~HasAny(p, UpperSet)
                THEN (IF p # <<>> THEN UpperStr(p[1]) \o Tail(p) ELSE p)
                ELSE p : p \in digit}
      padded == UNION {PadTo(p, 12) : p \in upper}
  IN  {IF Len(p) > 20 THEN Take(p, 20) ELSE p : p \in padded}

MinLength(movement_complexity) ==
  IF movement_complexity = "high" THEN 16 ELSE IF movement_complexity = "medium" THEN 14 ELSE 12
\* the markers appended first and the baseline pass, with its cut to 20, made after
ensure_advanced_complexity_markers_first(password, contextual_modifiers) ==
  LET behavioral_confidence ==
        Get(Get(contextual_modifiers, "behavioral_signature", <<>>), "confidence", "low")
      movement_complexity ==
        Get(Get(contextual_modifiers, "movement_entropy", <<>>), "complexity", "medium")
      kinetic == IF behavioral_confidence = "high" /\ ~HasAny(password, KineticChars)
                 THEN {Append(password, c) : c \in {"U+03A9", "U+223F", "U+21BB"}}
                 ELSE {password}
      greek == UNION {IF ~HasAny(p, GreekChars)
                      THEN {Append(p, c) : c \in {"U+0398", "U+2211", "U+03A8"}}
                      ELSE {p} : p \in kinetic}
      baseline == UNION {ensure_complexity(p) : p \in greek}
      padded == UNION {PadTo(p, MinLength(movement_complexity)) : p \in baseline}
  IN  {IF Len(p) > 24 THEN Take(p, 24) ELSE p : p \in padded}
ensure_advanced_complexity(password, contextual_modifiers) ==
  LET behavioral_confidence ==
        Get(Get(contextual_modifiers, "behavioral_signature", <<>>), "confidence", "low")
      movement_complexity ==
        Get(Get(contextual_modifiers, "movement_entropy", <<>>), "complexity", "medium")
      kinetic == UNION {IF behavioral_confidence = "high" /\ ~HasAny(p, KineticChars)
                        THEN {Append(p, c) : c \in {"U+03A9", "U+223F", "U+21BB"}}
                        ELSE {p} : p \in ensure_complexity(password)}
      greek == UNION {IF ~HasAny(p, GreekChars)
                      THEN {Append(p, c) : c \in {"U+0398", "U+2211", "U+03A8"}}
                      ELSE {p} : p \in kinetic}
      padded == UNION {PadTo(p, MinLength(movement_complexity)) : p \in greek}
  IN  {IF Len(p) > 24 THEN Take(p, 24) ELSE p : p \in padded}

\* assemble_password: every password the call can return, with the template drawn
assemble_password(semantic_elements, contextual_modifiers) ==
  LET actions ==
        IF semantic_elements.actions # <<>>
        THEN apply_entropy_randomization(
               Take(_select_primary_action(semantic_elements.actions), 6), 40, "movement")
        ELSE {<<>>}
      movement_signature == _create_advanced_movement_signature(semantic_elements, contextual_modifiers)
      movement_complexity ==
        Get(Get(contextual_modifiers, "movement_entropy", <<>>), "complexity", "medium")
      random_entropy ==
        IF movement_complexity = "high" THEN 3 ELSE IF movement_complexity = "medium" THEN 2 ELSE 1
      Components(action, descriptor, biometric_hash, random_component) ==
        [action |-> IF action # <<>> THEN action ELSE <<"m", "U+0398", "v">>,
         modifier |-> descriptor,
         biometric |-> Take(biometric_hash, 4),
         temporal |-> contextual_modifiers.temporal,
         entropy |-> contextual_modifiers.compound_modifier,
         behavioral |-> Get(Get(contextual_modifiers, "behavioral_signature", <<>>),
                            "signature", Chars("GEN")),
         random |-> random_component,
         signature |-> movement_signature]
  IN  UNION { UNION { UNION { UNION { UNION {
        { [password |-> final,
           template |-> template,
           fallback_template |-> FormatRaisesKeyError(template,
                                   Components(action, descriptor, biometric_hash, random_component))]
          : final \in UNION {ensure_advanced_complexity(assembled, contextual_modifiers)
                             : assembled \in _dynamic_password_assembly(template,
                                 Components(action, descriptor, biometric_hash, random_component))} }
        : template \in _select_security_optimal_template(semantic_elements, contextual_modifiers) }
        : random_component \in token_hex(random_entropy) }
        : biometric_hash \in generate_biometric_hash(
                               semantic_elements, Get(contextual_modifiers, "behavioral_signature", <<>>)) }
        : descriptor \in _extract_multi_source_descriptor(semantic_elements) }
        : action \in actions }

(***************************************************************************)
(* Strength assessment (src/app.py 803-893)                                *)
(***************************************************************************)
HasRepeatedRun(password) ==
  \E i \in 1..(Len(password) - 2) :
     password[i] # "\n" /\ password[i + 1] = password[i] /\ password[i + 2] = password[i]
SequentialRuns ==
  WordList(<<"012", "123", "234", "345", "456", "567", "678", "789", "890", "abc", "def", "ghi">>)
HasSequentialRun(password) ==
  \E k \in 1..Len(SequentialRuns) : Contains(Lower(password), SequentialRuns[k])
\* the tiers with > in place of >=
StrengthOfScoreStrict(score) ==
  IF score > 12 THEN "Exceptional"
  ELSE IF score > 9 THEN "Very Strong"
  ELSE IF score > 6 THEN "Strong"
  ELSE IF score > 4 THEN "Medium"
  ELSE "Weak"
StrengthOfScore(score) ==
  IF score >= 12 THEN "Exceptional"
  ELSE IF score >= 9 THEN "Very Strong"
  ELSE IF score >= 6 THEN "Strong"
  ELSE IF score >= 4 THEN "Medium"
  ELSE "Weak"
\* contextual_data is a dict, or <<>> for None / an empty dict
assess_password_strength(password, contextual_data) ==
  LET length == Len(password)
      behavioral_confidence ==
        Get(Get(contextual_data, "behavioral_signature", <<>>), "confidence", "low")
      movement_complexity ==
        Get(Get(contextual_data, "movement_entropy", <<>>), "complexity", "medium")
      has_context == DOMAIN contextual_data # {}
      unique_chars == Cardinality(Range(password))
      lower == HasAny(password, LowerSet)
      upper == HasAny(password, UpperSet)
      digit == HasAny(password, DigitSet)
      special == HasAny(password, SpecialChars)
      biometric == HasAny(password, BiometricChars)
      Points(cond, n) == IF cond THEN n ELSE 0
      Note(cond, text) == IF cond THEN <<text>> ELSE <<>>
      score ==
        (IF length >= 16 THEN 3 ELSE IF length >= 12 THEN 2 ELSE 0)
        + Points(lower, 1) + Points(upper, 1) + Points(digit, 1) + Points(special, 2)
        + Points(biometric, 3)
        + Points(has_context,
                 (IF behavioral_confidence = "high" THEN 2
                  ELSE IF behavioral_confidence = "medium" THEN 1 ELSE 0)
                 + (IF movement_complexity = "high" THEN 2
                    ELSE IF movement_complexity = "medium" THEN 1 ELSE 0))
        \* unique_chars >= len(password) * 0.8  /  * 0.6
        + (IF 10 * unique_chars >= 8 * length THEN 2
           ELSE IF 10 * unique_chars >= 6 * length THEN 1 ELSE 0)
        - Points(HasRepeatedRun(password), 1)
        - Points(HasSequentialRun(password), 2)
      factors ==
        Note(length >= 16, "Excellent length (16+ chars)")
        \o Note(length < 16 /\ length >= 12, "Good length (12+ chars)")
        \o Note(biometric, "Biometric Unicode characters detected")
        \o Note(has_context /\ behavioral_confidence = "high", "High behavioral confidence")
        \o Note(has_context /\ behavioral_confidence = "medium", "Medium behavioral confidence")
        \o Note(has_context /\ movement_complexity = "high", "High movement complexity")
        \o Note(10 * unique_chars >= 8 * length, "High character uniqueness")
      recommendations ==
        Note(length < 12, "Increase length to 12+ characters")
        \o Note(HasRepeatedRun(password), "Reduce character repetition")
        \o Note(HasSequentialRun(password), "Avoid sequential patterns")
  IN  [strength |-> StrengthOfScore(score),
       score |-> score,
       max_score |-> 15,
       analysis |-> [factors |-> factors, recommendations |-> recommendations],
       character_types |-> Points(lower, 1) + Points(upper, 1) + Points(digit, 1) + Points(special, 1)]

(***************************************************************************)
(* Extraction diagnostics (src/app.py 895-935)                             *)
(***************************************************************************)
\* len(movement_text.split())
SplitCount(t) ==
  Cardinality({i \in 1..Len(t) : ~IsSpaceChar(t[i]) /\ (i = 1 \/ IsSpaceChar(t[i - 1]))})
\* line 926: utilization_rate is assigned only under this condition
UtilizationRateAssigned(text_words) == text_words > 0
\* a return expression that reads utilization_rate whatever text_words is
UtilizationRateReadAlways(text_words) == TRUE
\* line 934: the return expression reads utilization_rate only under this condition
UtilizationRateRead(text_words) == text_words > 0
\* Returns the dict, with the exception the call raises instead under key raised
analyze_extraction_effectiveness(movement_text, extracted_elements) ==
  LET qualifiers == Get(extracted_elements, "qualifiers", <<>>)
      effectiveness_score ==
        (IF extracted_elements.actions # <<>> THEN 3 ELSE 0)
        + (IF extracted_elements.descriptors # <<>> THEN 2 ELSE 0)
        + (IF qualifiers # <<>> THEN 1 ELSE 0)
      text_words == SplitCount(movement_text)
      extracted_words ==
        Len(extracted_elements.actions) + Len(extracted_elements.descriptors) + Len(qualifiers)
      feedback ==
        <<IF extracted_elements.actions # <<>> THEN "actions extracted" ELSE "no actions extracted">>
        \o <<IF extracted_elements.descriptors # <<>> THEN "descriptors extracted"
             ELSE "no descriptors extracted">>
        \o (IF qualifiers # <<>> THEN <<"qualities extracted">> ELSE <<>>)
        \o (IF text_words > 0 THEN <<"text utilization">> ELSE <<>>)
  IN  [raised |-> IF UtilizationRateRead(text_words) /\ ~UtilizationRateAssigned(text_words)
                  THEN "UnboundLocalError" ELSE "",
       effectiveness_score |-> effectiveness_score,
       max_score |-> 6,
       feedback |-> feedback,
       \* (extracted_words / text_words) * 100, kept as the fraction <<numerator, denominator>>
       utilization_rate |-> IF text_words > 0 THEN <<100 * extracted_words, text_words>> ELSE <<0, 1>>]

_get_security_features_summary(contextual_modifiers) ==
  LET behavioral_confidence ==
        Get(Get(contextual_modifiers, "behavioral_signature", <<>>), "confidence", "low")
      movement_complexity ==
        Get(Get(contextual_modifiers, "movement_entropy", <<>>), "complexity", "medium")
  IN  (IF behavioral_confidence \in {"high", "medium"}
       THEN <<<<"Behavioral biometrics", behavioral_confidence>>>> ELSE <<>>)
      \o <<<<"Movement entropy analysis", movement_complexity>>>>
      \o (IF Truthy(contextual_modifiers, "compound_modifier")
          THEN <<<<"Multi-layered cryptographic hashing", "">>>> ELSE <<>>)
      \o << <<"High-precision temporal entropy", "">>,
            <<"Multi-tier character substitution", "">>,
            <<"Movement pattern fingerprinting", "">> >>

(***************************************************************************)
(* generate_password (src/app.py 745-801), one call at a time              *)
(***************************************************************************)
\* An argument is a Python object: a str, or None
PyStr(text) == [type |-> "str", value |-> Chars(text)]
None == [type |-> "NoneType", value |-> <<>>]
Unassigned == <<>>
Apostrophe == <<"U+0027">>
\* str(e) of the AttributeError of None.lower() (line 151)
NoneLowerMessage ==
  Apostrophe \o Chars("NoneType") \o Apostrophe \o Chars(" object has no attribute ")
  \o Apostrophe \o Chars("lower") \o Apostrophe
\* str(e) of the UnboundLocalError of line 934
UnboundLocalMessage ==
  Chars("cannot access local variable ") \o Apostrophe \o Chars("utilization_rate") \o Apostrophe
  \o Chars(" where it is not associated with a value")

\* The calls served: <<movement_analysis, movement_summary>>, the first MaxRequests of them
MaxRequests == 9
Requests ==
  << <<PyStr("lift"), PyStr("A lift.")>>,
     <<PyStr(""), PyStr("")>>,
     <<None, PyStr("a smooth walking motion")>>,
     <<PyStr("   "), PyStr("")>>,
     <<PyStr("quick vigorous gentle stride pace rhythm flow"), PyStr("turn step wave")>>,
     <<PyStr("turn"), None>>,
     <<PyStr("Slow steady smooth arm leg left right move turn step wave"),
       PyStr("Slow steady smooth arm leg left right move turn step wave")>>,
     <<PyStr("walking"), PyStr("")>>,
     <<PyStr("step wave turn"), PyStr("lift")>>,
     <<PyStr("wave"), PyStr("wave")>> >>
\* The scenario of the specification: detailed text and summary
ScenarioRequest ==
  <<PyStr("the person is walking forward with smooth arm movements, turning left"),
    PyStr("a smooth walking motion")>>

\* datetime.now(): one of the first MaxClock readings
MaxClock == 2
ClockValues ==
  << [hour |-> 9, minute |-> 5, second |-> 7, microsecond |-> 123456, weekday |-> 4, day |-> 6, month |-> 11],
     [hour |-> 23, minute |-> 59, second |-> 59, microsecond |-> 42, weekday |-> 6, day |-> 28, month |-> 2],
     [hour |-> 0, minute |-> 0, second |-> 0, microsecond |-> 0, weekday |-> 0, day |-> 1, month |-> 1] >>
Clock == {ClockValues[i] : i \in 1..MaxClock}

\* The string-hash seed of the process is one of 0..MaxHashSeed
MaxHashSeed == 1

\* the merge with the slices taken of the concatenated lists, no set built
combine_elements_no_set(seed, summary, analysis) ==
  [actions |-> Take(summary.actions \o analysis.actions, 3),
   descriptors |-> Take(summary.descriptors \o analysis.descriptors, 3),
   qualifiers |-> Take(Get(summary, "qualifiers", <<>>) \o Get(analysis, "qualifiers", <<>>), 2),
   full_text |-> summary.full_text \o <<" ">> \o analysis.full_text]
\* lines 755-760
combine_elements(seed, summary, analysis) ==
  [actions |-> Take(ListOfSet(seed, summary.actions \o analysis.actions), 3),
   descriptors |-> Take(ListOfSet(seed, summary.descriptors \o analysis.descriptors), 3),
   qualifiers |-> Take(ListOfSet(seed, Get(summary, "qualifiers", <<>>)
                                       \o Get(analysis, "qualifiers", <<>>)), 2),
   full_text |-> summary.full_text \o <<" ">> \o analysis.full_text]

\* The module-level instance after construction (line 968), no call in progress
Constructed ==
  /\ password_generator = MovementPasswordGenerator
  /\ analysis_arg = Unassigned /\ summary_arg = Unassigned
  /\ analysis_elements = Unassigned /\ summary_elements = Unassigned
  /\ combined_elements = Unassigned /\ extraction_analysis = Unassigned
  /\ modifiers = Unassigned /\ assembly = Unassigned /\ strength_analysis = Unassigned
  /\ exception = Unassigned /\ response = Unassigned
  /\ gemini_pc = "idle"
  /\ max_retries = 0 /\ model_index = 0 /\ attempt = 0
  /\ last_error = None /\ retry_trace = <<>> /\ retry_result = Unassigned
  /\ requests = <<>> /\ gemini_result = Unassigned

Init ==
  /\ Constructed
  /\ suspended = <<>>
  /\ hashSeed \in 0..MaxHashSeed
  /\ pc = "idle"
  /\ probe_input = Unassigned /\ probe_context = Unassigned /\ probe_output = Unassigned

\* a caller invokes password_generator.generate_password(movement_analysis, movement_summary)
generate_password(movement_analysis, movement_summary) ==
  /\ pc = "idle"
  /\ analysis_arg' = movement_analysis
  /\ summary_arg' = movement_summary
  /\ pc' = "extract_analysis"
  /\ UNCHANGED <<password_generator, hashSeed, analysis_elements, summary_elements,
                 combined_elements, extraction_analysis, modifiers, assembly,
                 strength_analysis, exception, response, probe_vars, thread_vars, gemini_vars>>

\* line 751
ExtractAnalysis ==
  /\ pc = "extract_analysis"
  /\ IF analysis_arg.type = "str"
     THEN /\ analysis_elements' = extract_semantic_elements(hashSeed, analysis_arg.value)
          /\ pc' = "extract_summary"
          /\ UNCHANGED exception
     ELSE /\ exception' = NoneLowerMessage
          /\ pc' = "except"
          /\ UNCHANGED analysis_elements
  /\ UNCHANGED <<password_generator, hashSeed, analysis_arg, summary_arg, summary_elements,
                 combined_elements, extraction_analysis, modifiers, assembly,
                 strength_analysis, response, probe_vars, thread_vars, gemini_vars>>

\* line 752 in an interpreter whose set order is not the same from one call to the next
ExtractSummaryReseeded ==
  /\ pc = "extract_summary"
  /\ IF summary_arg.type = "str"
     THEN /\ summary_elements' = extract_semantic_elements(hashSeed + 1, summary_arg.value)
          /\ pc' = "merge"
          /\ UNCHANGED exception
     ELSE /\ exception' = NoneLowerMessage
          /\ pc' = "except"
          /\ UNCHANGED summary_elements
  /\ UNCHANGED <<password_generator, hashSeed, analysis_arg, summary_arg, analysis_elements,
                 combined_elements, extraction_analysis, modifiers, assembly,
                 strength_analysis, response, probe_vars, thread_vars, gemini_vars>>

\* line 752
ExtractSummary ==
  /\ pc = "extract_summary"
  /\ IF summary_arg.type = "str"
     THEN /\ summary_elements' = extract_semantic_elements(hashSeed, summary_arg.value)
          /\ pc' = "merge"
          /\ UNCHANGED exception
     ELSE /\ exception' = NoneLowerMessage
          /\ pc' = "except"
          /\ UNCHANGED summary_elements
  /\ UNCHANGED <<password_generator, hashSeed, analysis_arg, summary_arg, analysis_elements,
                 combined_elements, extraction_analysis, modifiers, assembly,
                 strength_analysis, response, probe_vars, thread_vars, gemini_vars>>

\* the merge of a generator that learns: the merged descriptors join its vocabulary
MergeLearning ==
  /\ pc = "merge"
  /\ combined_elements' = combine_elements(hashSeed, summary_elements, analysis_elements)
  /\ password_generator' =
       [password_generator EXCEPT !.contextual_terms.intensities = @ \o combined_elements'.actions]
  /\ pc' = "effectiveness"
  /\ UNCHANGED <<hashSeed, analysis_arg, summary_arg, analysis_elements,
                 summary_elements, extraction_analysis, modifiers, assembly,
                 strength_analysis, exception, response, probe_vars, thread_vars, gemini_vars>>

\* lines 755-760
Merge ==
  /\ pc = "merge"
  /\ combined_elements' = combine_elements(hashSeed, summary_elements, analysis_elements)
  /\ pc' = "effectiveness"
  /\ UNCHANGED <<password_generator, hashSeed, analysis_arg, summary_arg, analysis_elements,
                 summary_elements, extraction_analysis, modifiers, assembly,
                 strength_analysis, exception, response, probe_vars, thread_vars, gemini_vars>>

\* lines 763-766
AnalyzeEffectiveness ==
  /\ pc = "effectiveness"
  /\ LET r == analyze_extraction_effectiveness(combined_elements.full_text, combined_elements)
     IN  IF r.raised = ""
         THEN /\ extraction_analysis' = r
              /\ pc' = "modifiers"
              /\ UNCHANGED exception
         ELSE /\ exception' = UnboundLocalMessage
              /\ pc' = "except"
              /\ UNCHANGED extraction_analysis
  /\ UNCHANGED <<password_generator, hashSeed, analysis_arg, summary_arg, analysis_elements,
                 summary_elements, combined_elements, modifiers, assembly,
                 strength_analysis, response, probe_vars, thread_vars, gemini_vars>>

\* line 769
GenerateModifiers ==
  /\ pc = "modifiers"
  /\ \E now \in Clock, session \in token_hex(3),
        fallback_hash \in (IF combined_elements.full_text = <<>> THEN token_hex(2) ELSE {<<>>}) :
       modifiers' = generate_contextual_modifiers(hashSeed, combined_elements.full_text,
                                                  now, fallback_hash, session)
  /\ pc' = "assemble"
  /\ UNCHANGED <<password_generator, hashSeed, analysis_arg, summary_arg, analysis_elements,
                 summary_elements, combined_elements, extraction_analysis, assembly,
                 strength_analysis, exception, response, probe_vars, thread_vars, gemini_vars>>

\* line 772
Assemble ==
  /\ pc = "assemble"
  /\ assembly' \in assemble_password(combined_elements, modifiers)
  /\ pc' = "assess"
  /\ UNCHANGED <<password_generator, hashSeed, analysis_arg, summary_arg, analysis_elements,
                 summary_elements, combined_elements, extraction_analysis, modifiers,
                 strength_analysis, exception, response, probe_vars, thread_vars, gemini_vars>>

\* lines 775-788
AssessAndReturn ==
  /\ pc = "assess"
  /\ strength_analysis' = assess_password_strength(assembly.password, modifiers)
  /\ response' =
       [password |-> assembly.password,
        components |-> [semantic_elements |-> combined_elements,
                        contextual_modifiers |-> modifiers,
                        extraction_analysis |-> extraction_analysis],
        strength |-> strength_analysis'.strength,
        strength_analysis |-> strength_analysis',
        generation_method |-> "advanced_biometric_extraction",
        security_features |-> _get_security_features_summary(modifiers)]
  /\ pc' = "returned"
  /\ UNCHANGED <<password_generator, hashSeed, analysis_arg, summary_arg, analysis_elements,
                 summary_elements, combined_elements, extraction_analysis, modifiers,
                 assembly, exception, probe_vars, thread_vars, gemini_vars>>

\* the except clause drawing secrets.token_hex(1)
FallbackShortToken ==
  /\ pc = "except"
  /\ \E token \in token_hex(1), now \in Clock :
       response' =
         [password |-> Chars("Move") \o token \o Str(now.hour) \o Chars("!"),
          components |-> [error |-> exception, fallback_used |-> TRUE],
          strength |-> "Medium",
          generation_method |-> "fallback"]
  /\ pc' = "returned"
  /\ UNCHANGED <<password_generator, hashSeed, analysis_arg, summary_arg, analysis_elements,
                 summary_elements, combined_elements, extraction_analysis, modifiers,
                 assembly, strength_analysis, exception, probe_vars, thread_vars, gemini_vars>>

\* the except clause assessing the fallback password instead of reporting "Medium"
FallbackAssessed ==
  /\ pc = "except"
  /\ \E token \in token_hex(4), now \in Clock :
       LET fallback_password == Chars("Move") \o token \o Str(now.hour) \o Chars("!")
       IN  response' =
             [password |-> fallback_password,
              components |-> [error |-> exception, fallback_used |-> TRUE],
              strength |-> assess_password_strength(fallback_password, <<>>).strength,
              generation_method |-> "fallback"]
  /\ pc' = "returned"
  /\ UNCHANGED <<password_generator, hashSeed, analysis_arg, summary_arg, analysis_elements,
                 summary_elements, combined_elements, extraction_analysis, modifiers,
                 assembly, strength_analysis, exception, probe_vars, thread_vars, gemini_vars>>

\* lines 790-801: the except clause
Fallback ==
  /\ pc = "except"
  /\ \E token \in token_hex(4), now \in Clock :
       response' =
         [password |-> Chars("Move") \o token \o Str(now.hour) \o Chars("!"),
          components |-> [error |-> exception, fallback_used |-> TRUE],
          strength |-> "Medium",
          generation_method |-> "fallback"]
  /\ pc' = "returned"
  /\ UNCHANGED <<password_generator, hashSeed, analysis_arg, summary_arg, analysis_elements,
                 summary_elements, combined_elements, extraction_analysis, modifiers,
                 assembly, strength_analysis, exception, probe_vars, thread_vars, gemini_vars>>

\* the caller has the result; the generator serves the next call
Finish ==
  /\ pc = "returned"
  /\ pc' = "idle"
  /\ analysis_arg' = Unassigned /\ summary_arg' = Unassigned
  /\ analysis_elements' = Unassigned /\ summary_elements' = Unassigned
  /\ combined_elements' = Unassigned /\ extraction_analysis' = Unassigned
  /\ modifiers' = Unassigned /\ assembly' = Unassigned /\ strength_analysis' = Unassigned
  /\ exception' = Unassigned /\ response' = Unassigned
  /\ UNCHANGED <<password_generator, hashSeed, probe_vars, thread_vars, gemini_vars>>

Call == \E r \in 1..MaxRequests : generate_password(Requests[r][1], Requests[r][2])
CallScenario == generate_password(ScenarioRequest[1], ScenarioRequest[2])

Next ==
  \/ Call \/ ExtractAnalysis \/ ExtractSummary \/ Merge \/ AnalyzeEffectiveness
  \/ GenerateModifiers \/ Assemble \/ AssessAndReturn \/ Fallback \/ Finish

Spec == Init /\ [][Next]_vars

\* The same generator serving the scenario's call only
NextScenario ==
  \/ CallScenario \/ ExtractAnalysis \/ ExtractSummary \/ Merge \/ AnalyzeEffectiveness
  \/ GenerateModifiers \/ Assemble \/ AssessAndReturn \/ Finish
SpecScenario == Init /\ [][NextScenario]_vars

(***************************************************************************)
(* Concurrent requests: the server handles each request in a thread of its *)
(* own, all calling the one instance of line 968.  One thread runs at a    *)
(* time; the frames of the others wait in suspended.                        *)
(***************************************************************************)
MaxThreads == 2
\* the locals of the running generate_password call
Frame ==
  [pc |-> pc, analysis_arg |-> analysis_arg, summary_arg |-> summary_arg,
   analysis_elements |-> analysis_elements, summary_elements |-> summary_elements,
   combined_elements |-> combined_elements, extraction_analysis |-> extraction_analysis,
   modifiers |-> modifiers, assembly |-> assembly, strength_analysis |-> strength_analysis,
   exception |-> exception, response |-> response]
IdleFrame ==
  [pc |-> "idle", analysis_arg |-> Unassigned, summary_arg |-> Unassigned,
   analysis_elements |-> Unassigned, summary_elements |-> Unassigned,
   combined_elements |-> Unassigned, extraction_analysis |-> Unassigned,
   modifiers |-> Unassigned, assembly |-> Unassigned, strength_analysis |-> Unassigned,
   exception |-> Unassigned, response |-> Unassigned]
\* the requests the threads serve
ConcurrentRequests == <<Requests[10], Requests[3]>>

InitConcurrent ==
  /\ Constructed
  /\ suspended = [k \in 1..(MaxThreads - 1) |-> IdleFrame]
  /\ hashSeed = 0
  /\ pc = "idle"
  /\ probe_input = Unassigned /\ probe_context = Unassigned /\ probe_output = Unassigned

\* the interpreter hands over to the waiting thread k, between two steps of the running one
Switch(k) ==
  /\ suspended' = [suspended EXCEPT ![k] = Frame]
  /\ pc' = suspended[k].pc
  /\ analysis_arg' = suspended[k].analysis_arg
  /\ summary_arg' = suspended[k].summary_arg
  /\ analysis_elements' = suspended[k].analysis_elements
  /\ summary_elements' = suspended[k].summary_elements
  /\ combined_elements' = suspended[k].combined_elements
  /\ extraction_analysis' = suspended[k].extraction_analysis
  /\ modifiers' = suspended[k].modifiers
  /\ assembly' = suspended[k].assembly
  /\ strength_analysis' = suspended[k].strength_analysis
  /\ exception' = suspended[k].exception
  /\ response' = suspended[k].response
  /\ UNCHANGED <<password_generator, hashSeed, probe_vars, gemini_vars>>
SwitchThread == \E k \in 1..Len(suspended) : Switch(k)
CallConcurrent ==
  \E r \in 1..Len(ConcurrentRequests) :
    generate_password(ConcurrentRequests[r][1], ConcurrentRequests[r][2])

NextConcurrent ==
  \/ CallConcurrent \/ SwitchThread \/ ExtractAnalysis \/ ExtractSummary \/ Merge
  \/ AnalyzeEffectiveness \/ GenerateModifiers \/ Assemble \/ AssessAndReturn \/ Fallback
  \/ Finish
SpecConcurrent == InitConcurrent /\ [][NextConcurrent]_vars

(***************************************************************************)
(* assess_password_strength called on its own: the password is typed one   *)
(* character at a time, then assessed with the given contextual data       *)
(***************************************************************************)
MaxProbeLen == 3
StrengthChars == <<"a", "b", "c", "A", "1", "_", "U+03A9", " ">>
ContextOf(confidence, complexity) ==
  [behavioral_signature |-> [confidence |-> confidence],
   movement_entropy |-> [complexity |-> complexity]]
\* contextual_data: None, or modifiers of the given confidence and complexity
StrengthContexts ==
  {<<>>, ContextOf("low", "low"), ContextOf("medium", "medium"), ContextOf("high", "high")}

InitStrength ==
  /\ Constructed
  /\ suspended = <<>>
  /\ hashSeed = 0
  /\ pc = "probe"
  /\ probe_input = <<>>
  /\ probe_context \in StrengthContexts
  /\ probe_output = Unassigned

TypeChar ==
  /\ pc = "probe"
  /\ Len(probe_input) < MaxProbeLen
  /\ \E k \in 1..Len(StrengthChars) : probe_input' = Append(probe_input, StrengthChars[k])
  /\ UNCHANGED <<password_generator, hashSeed, pc, call_vars, probe_context, probe_output,
                 thread_vars, gemini_vars>>

AssessProbe ==
  /\ pc = "probe"
  /\ probe_output' = assess_password_strength(probe_input, probe_context)
  /\ pc' = "probed"
  /\ UNCHANGED <<password_generator, hashSeed, call_vars, probe_input, probe_context,
                 thread_vars, gemini_vars>>

NextStrength == TypeChar \/ AssessProbe
SpecStrength == InitStrength /\ [][NextStrength]_vars

(***************************************************************************)
(* _generate_movement_entropy called on its own: the text is written one   *)
(* word at a time, words in the order of EntropyWords, then analysed       *)
(***************************************************************************)
MaxProbeWords == 6
EntropyWords ==
  WordList(<<"pace", "space", "flow", "sync", "curved", "spiral", "stride", "walk">>)

InitEntropy ==
  /\ Constructed
  /\ suspended = <<>>
  /\ hashSeed = 0
  /\ pc = "probe"
  /\ probe_input = <<>>
  /\ probe_context = [words |-> 0, last |-> 1]
  /\ probe_output = Unassigned

WriteWord ==
  /\ pc = "probe"
  /\ probe_context.words < MaxProbeWords
  /\ \E k \in probe_context.last..Len(EntropyWords) :
       /\ probe_input' = IF probe_input = <<>> THEN EntropyWords[k]
                         ELSE probe_input \o <<" ">> \o EntropyWords[k]
       /\ probe_context' = [words |-> probe_context.words + 1, last |-> k]
  /\ UNCHANGED <<password_generator, hashSeed, pc, call_vars, probe_output,
                 thread_vars, gemini_vars>>

EntropyProbe ==
  /\ pc = "probe"
  /\ \E fallback_hash \in (IF probe_input = <<>> THEN token_hex(2) ELSE {<<>>}) :
       probe_output' = _generate_movement_entropy(probe_input, fallback_hash)
  /\ pc' = "probed"
  /\ UNCHANGED <<password_generator, hashSeed, call_vars, probe_input, probe_context,
                 thread_vars, gemini_vars>>

NextEntropy == WriteWord \/ EntropyProbe
SpecEntropy == InitEntropy /\ [][NextEntropy]_vars

(***************************************************************************)
(* ensure_complexity called on its own: the password is one of two         *)
(* assembled strings with up to MaxProbeLen characters typed after it      *)
(***************************************************************************)
ComplexityBases == {Chars("3ea7w4v3_"), Chars("walkingturningstep")}

InitComplexity ==
  /\ Constructed
  /\ suspended = <<>>
  /\ hashSeed = 0
  /\ pc = "probe"
  /\ probe_input = <<>>
  /\ probe_context \in ComplexityBases
  /\ probe_output = Unassigned

EnsureProbe ==
  /\ pc = "probe"
  /\ probe_output' \in ensure_complexity(probe_context \o probe_input)
  /\ pc' = "probed"
  /\ UNCHANGED <<password_generator, hashSeed, call_vars, probe_input, probe_context,
                 thread_vars, gemini_vars>>

NextComplexity == TypeChar \/ EnsureProbe
SpecComplexity == InitComplexity /\ [][NextComplexity]_vars

(***************************************************************************)
(* assemble_password called on its own, with 0 to 3 extracted actions and  *)
(* modifiers of every behavioral confidence and movement complexity        *)
(***************************************************************************)
AssembleActions == WordList(<<"turn", "step", "wave">>)
AssembleElements ==
  {[actions |-> Take(AssembleActions, n), descriptors |-> <<>>, qualifiers |-> <<>>,
    full_text |-> Join(<<" ">>, Take(AssembleActions, n))] : n \in 0..Len(AssembleActions)}
AssembleModifiers ==
  {[temporal |-> Chars("3ea7"),
    movement_entropy |-> [pattern_hash |-> Chars("a7d"), complexity |-> complexity,
                          movement_types |-> 0, signature |-> <<>>],
    behavioral_signature |-> [complexity_score |-> Chars("0"), signature |-> Chars("GEN"),
                              confidence |-> confidence, features_detected |-> 0],
    session |-> Chars("00fe9c"),
    compound_modifier |-> Chars("0cf9")]
   : confidence \in {"low", "medium", "high"}, complexity \in {"low", "medium", "high"}}

InitAssemble ==
  /\ Constructed
  /\ suspended = <<>>
  /\ hashSeed = 0
  /\ pc = "probe"
  /\ probe_input \in AssembleElements
  /\ probe_context \in AssembleModifiers
  /\ probe_output = Unassigned

AssembleProbe ==
  /\ pc = "probe"
  /\ probe_output' \in assemble_password(probe_input, probe_context)
  /\ pc' = "probed"
  /\ UNCHANGED <<password_generator, hashSeed, call_vars, probe_input, probe_context,
                 thread_vars, gemini_vars>>

NextAssemble == AssembleProbe
SpecAssemble == InitAssemble /\ [][NextAssemble]_vars

(***************************************************************************)
(* generate_contextual_modifiers called twice on one text, each call with  *)
(* its own clock reading and its own draws                                 *)
(***************************************************************************)
ModifierTexts == {<<>>, Chars("wave"), Chars("quick smooth stride")}
\* datetime.now() at two times of day that read alike and on two dates
ModifierClocks ==
  {[hour |-> t[1], minute |-> t[2], second |-> 7, microsecond |-> us,
    weekday |-> d[1], day |-> d[2], month |-> d[3]]
   : t \in {<<1, 23>>, <<12, 3>>, <<9, 5>>}, us \in {123456, 123999, 42},
     d \in {<<4, 6, 11>>, <<6, 28, 2>>}}

InitModifiers ==
  /\ Constructed
  /\ suspended = <<>>
  /\ hashSeed = 0
  /\ pc = "probe"
  /\ probe_input \in ModifierTexts
  /\ probe_context = <<>>
  /\ probe_output = <<>>

\* probe_context keeps the clock readings, probe_output the dicts returned
ModifiersProbe ==
  /\ pc = "probe"
  /\ Len(probe_output) < 2
  /\ \E now \in ModifierClocks, session \in token_hex(3),
        fallback_hash \in (IF probe_input = <<>> THEN token_hex(2) ELSE {<<>>}) :
       /\ probe_context' = Append(probe_context, now)
       /\ probe_output' = Append(probe_output,
            generate_contextual_modifiers(hashSeed, probe_input, now, fallback_hash, session))
  /\ UNCHANGED <<password_generator, hashSeed, pc, call_vars, probe_input,
                 thread_vars, gemini_vars>>

NextModifiers == ModifiersProbe
SpecModifiers == InitModifiers /\ [][NextModifiers]_vars

(***************************************************************************)
(* _analyze_behavioral_patterns called on its own: the text is written one *)
(* phrase at a time, each phrase at most once, in the order of             *)
(* BehaviorPhrases                                                         *)
(***************************************************************************)
MaxPhrases == 7
BehaviorPhrases ==
  WordList(<<"balanced", "Smooth coordinated synchronized stable", "quick", "slowly vigorous",
             "gentle explosive sustained", "precise", "deliberate controlled natural fluid",
             "quick walk">>)

InitBehavior ==
  /\ Constructed
  /\ suspended = <<>>
  /\ hashSeed \in 0..MaxHashSeed
  /\ pc = "probe"
  /\ probe_input = <<>>
  /\ probe_context = [words |-> 0, last |-> 1]
  /\ probe_output = Unassigned

WritePhrase ==
  /\ pc = "probe"
  /\ probe_context.words < MaxPhrases
  /\ \E k \in probe_context.last..Len(BehaviorPhrases) :
       /\ probe_input' = IF probe_input = <<>> THEN BehaviorPhrases[k]
                         ELSE probe_input \o <<" ">> \o BehaviorPhrases[k]
       /\ probe_context' = [words |-> probe_context.words + 1, last |-> k + 1]
  /\ UNCHANGED <<password_generator, hashSeed, pc, call_vars, probe_output,
                 thread_vars, gemini_vars>>

BehaviorProbe ==
  /\ pc = "probe"
  /\ probe_output' = _analyze_behavioral_patterns(hashSeed, probe_input)
  /\ pc' = "probed"
  /\ UNCHANGED <<password_generator, hashSeed, call_vars, probe_input, probe_context,
                 thread_vars, gemini_vars>>

NextBehavior == WritePhrase \/ BehaviorProbe
SpecBehavior == InitBehavior /\ [][NextBehavior]_vars

(***************************************************************************)
(* apply_entropy_randomization called on its own: the text is typed one    *)
(* character at a time, then randomized at the given entropy level         *)
(***************************************************************************)
MaxTextLen == 4
RandomizeChars == <<"w", "a", "v", "E", "1", "U+00DF">>
\* entropy_level in percent, and context
RandomizeArguments ==
  {[entropy_percent |-> 30, context |-> "general"],
   [entropy_percent |-> 40, context |-> "movement"],
   [entropy_percent |-> 70, context |-> "general"]}

InitRandomize ==
  /\ Constructed
  /\ suspended = <<>>
  /\ hashSeed = 0
  /\ pc = "probe"
  /\ probe_input = <<>>
  /\ probe_context \in RandomizeArguments
  /\ probe_output = Unassigned

TypeLetter ==
  /\ pc = "probe"
  /\ Len(probe_input) < MaxTextLen
  /\ \E k \in 1..Len(RandomizeChars) : probe_input' = Append(probe_input, RandomizeChars[k])
  /\ UNCHANGED <<password_generator, hashSeed, pc, call_vars, probe_context, probe_output,
                 thread_vars, gemini_vars>>

RandomizeProbe ==
  /\ pc = "probe"
  /\ probe_output' \in apply_entropy_randomization(probe_input, probe_context.entropy_percent,
                                                  probe_context.context)
  /\ pc' = "probed"
  /\ UNCHANGED <<password_generator, hashSeed, call_vars, probe_input, probe_context,
                 thread_vars, gemini_vars>>

NextRandomize == TypeLetter \/ RandomizeProbe
SpecRandomize == InitRandomize /\ [][NextRandomize]_vars

(***************************************************************************)
(* analyze_with_gemini and retry_with_backoff: the request to the model     *)
(* service either returns a response or raises, with one of a few messages  *)
(***************************************************************************)
MaxRetries == 3
base_delay == 2
models_to_try == <<Chars("gemini-2.0-flash-exp"), Chars("gemini-1.5-flash"), Chars("gemini-1.5-pro")>>
RetryableKeywords ==
  <<Chars("503"), Chars("overloaded"), Chars("unavailable"), Chars("rate limit"), Chars("quota")>>
\* any(keyword in error_msg ...) for error_msg = str(e).lower()
IsRetryable(message) ==
  \E k \in 1..Len(RetryableKeywords) : Contains(Lower(message), RetryableKeywords[k])
\* what str(e) of an error of the model service can be
ErrorMessages ==
  {Chars("503 UNAVAILABLE"), Chars("Rate Limit hit"), Chars("404 not found")}
\* an exception of the client library, and one the code makes with Exception(...)
APIError(message) == [type |-> "APIError", value |-> message]
PyException(message) == [type |-> "Exception", value |-> message]
GenerateContentResponse(model_name) == [type |-> "GenerateContentResponse", value |-> model_name]
ReturnOf(value) == [how |-> "return", value |-> value]
RaiseOf(e) == [how |-> "raise", value |-> e]
AllAttemptsFailed(n, message) ==
  PyException(Chars("All ") \o Str(n) \o Chars(" attempts failed. Last error: ") \o message)
AllModelsFailed(e) ==
  PyException(Chars("All models failed. Last error: ") \o e.value)

InitGemini ==
  /\ Constructed
  /\ suspended = <<>>
  /\ hashSeed = 0
  /\ pc = "idle"
  /\ probe_input = Unassigned /\ probe_context = Unassigned /\ probe_output = Unassigned

rest_vars == <<password_generator, hashSeed, pc, call_vars, probe_vars, thread_vars>>

\* a caller invokes analyze_with_gemini(prompt, video_file, n): lines 60-68
analyze_with_gemini(n) ==
  /\ gemini_pc = "idle"
  /\ max_retries' = n
  /\ last_error' = None
  /\ model_index' = 1
  /\ gemini_pc' = "models"
  /\ UNCHANGED <<attempt, retry_trace, retry_result, requests, gemini_result, rest_vars>>

\* line 70 with a model left, line 80: retry_with_backoff(make_request, max_retries) is entered
TryModel ==
  /\ gemini_pc = "models"
  /\ model_index <= Len(models_to_try)
  /\ attempt' = 0
  /\ retry_trace' = <<>>
  /\ retry_result' = Unassigned
  /\ gemini_pc' = "retry"
  /\ UNCHANGED <<max_retries, last_error, model_index, requests, gemini_result, rest_vars>>

\* line 70 with no model left, line 89
RaiseAllModelsFailed ==
  /\ gemini_pc = "models"
  /\ model_index > Len(models_to_try)
  /\ gemini_result' = RaiseOf(AllModelsFailed(last_error))
  /\ gemini_pc' = "raised"
  /\ UNCHANGED <<max_retries, last_error, model_index, attempt, retry_trace, retry_result,
                 requests, rest_vars>>

\* line 38 with the range used up: the function ends without a return statement
RangeExhausted ==
  /\ gemini_pc = "retry"
  /\ attempt >= max_retries
  /\ retry_result' = ReturnOf(None)
  /\ gemini_pc' = "handle"
  /\ UNCHANGED <<max_retries, last_error, model_index, attempt, retry_trace, requests,
                 gemini_result, rest_vars>>

\* lines 39-40: func() returns
CallReturns ==
  /\ gemini_pc = "retry"
  /\ attempt < max_retries
  /\ LET value == GenerateContentResponse(models_to_try[model_index])
     IN  /\ requests' = Append(requests, [model |-> models_to_try[model_index], outcome |-> value])
         /\ retry_trace' = Append(retry_trace, [kind |-> "call", outcome |-> value])
         /\ retry_result' = ReturnOf(value)
  /\ gemini_pc' = "handle"
  /\ UNCHANGED <<max_retries, last_error, model_index, attempt, gemini_result, rest_vars>>

\* the same with the sleep taken after the last attempt too
CallRaisesSleepingOn(e) ==
  /\ gemini_pc = "retry"
  /\ attempt < max_retries
  /\ requests' = Append(requests, [model |-> models_to_try[model_index], outcome |-> e])
  /\ retry_trace' = Append(retry_trace, [kind |-> "call", outcome |-> e])
  /\ IF IsRetryable(e.value)
     THEN /\ gemini_pc' = "sleep"
          /\ UNCHANGED retry_result
     ELSE /\ retry_result' = RaiseOf(e)
          /\ gemini_pc' = "handle"
  /\ UNCHANGED <<max_retries, last_error, model_index, attempt, gemini_result, rest_vars>>
\* lines 39-58: func() raises e
CallRaises(e) ==
  /\ gemini_pc = "retry"
  /\ attempt < max_retries
  /\ requests' = Append(requests, [model |-> models_to_try[model_index], outcome |-> e])
  /\ retry_trace' = Append(retry_trace, [kind |-> "call", outcome |-> e])
  /\ IF IsRetryable(e.value)
     THEN IF attempt < max_retries - 1
          THEN /\ gemini_pc' = "sleep"
               /\ UNCHANGED retry_result
          ELSE /\ retry_result' = RaiseOf(AllAttemptsFailed(max_retries, e.value))
               /\ gemini_pc' = "handle"
     ELSE /\ retry_result' = RaiseOf(e)
          /\ gemini_pc' = "handle"
  /\ UNCHANGED <<max_retries, last_error, model_index, attempt, gemini_result, rest_vars>>

\* lines 49-53: delay is base_delay * 2 ** attempt plus a jitter under one second; the
\* whole seconds are kept
Sleep ==
  /\ gemini_pc = "sleep"
  /\ retry_trace' = Append(retry_trace, [kind |-> "sleep", outcome |-> base_delay * 2^attempt])
  /\ attempt' = attempt + 1
  /\ gemini_pc' = "retry"
  /\ UNCHANGED <<max_retries, last_error, model_index, retry_result, requests, gemini_result,
                 rest_vars>>

\* the same with only the wrapped failure of the retries leading to the next model
HandleReraising ==
  /\ gemini_pc = "handle"
  /\ IF retry_result.how = "return"
     THEN /\ gemini_result' = retry_result
          /\ gemini_pc' = "returned"
          /\ UNCHANGED <<last_error, model_index>>
     ELSE IF retry_result.value.type = "Exception"
          THEN /\ last_error' = retry_result.value
               /\ model_index' = model_index + 1
               /\ gemini_pc' = "models"
               /\ UNCHANGED gemini_result
          ELSE /\ gemini_result' = retry_result
               /\ gemini_pc' = "raised"
               /\ UNCHANGED <<last_error, model_index>>
  /\ UNCHANGED <<max_retries, attempt, retry_trace, retry_result, requests, rest_vars>>
\* lines 79-86: the response is returned, or the exception is kept and the loop goes on
Handle ==
  /\ gemini_pc = "handle"
  /\ IF retry_result.how = "return"
     THEN /\ gemini_result' = retry_result
          /\ gemini_pc' = "returned"
          /\ UNCHANGED <<last_error, model_index>>
     ELSE /\ last_error' = retry_result.value
          /\ model_index' = model_index + 1
          /\ gemini_pc' = "models"
          /\ UNCHANGED gemini_result
  /\ UNCHANGED <<max_retries, attempt, retry_trace, retry_result, requests, rest_vars>>

NextGemini ==
  \/ \E n \in 0..MaxRetries : analyze_with_gemini(n)
  \/ TryModel
  \/ RaiseAllModelsFailed
  \/ RangeExhausted
  \/ CallReturns
  \/ \E message \in ErrorMessages : CallRaises(APIError(message))
  \/ Sleep
  \/ Handle
SpecGemini == InitGemini /\ [][NextGemini]_vars

(***************************************************************************)
(* assess_password_strength called on longer passwords: a password of 13   *)
(* characters is typed on, then assessed                                   *)
(***************************************************************************)
MaxPasswordLen == 17
ScoreBase == Chars("Aq1!wzxvtrpnm")
ScoreChars == <<"k", "j", "h", "U+0398">>

InitScore ==
  /\ Constructed
  /\ suspended = <<>>
  /\ hashSeed = 0
  /\ pc = "probe"
  /\ probe_input = ScoreBase
  /\ probe_context \in StrengthContexts
  /\ probe_output = Unassigned

TypeOn ==
  /\ pc = "probe"
  /\ Len(probe_input) < MaxPasswordLen
  /\ \E k \in 1..Len(ScoreChars) : probe_input' = Append(probe_input, ScoreChars[k])
  /\ UNCHANGED <<password_generator, hashSeed, pc, call_vars, probe_context, probe_output,
                 thread_vars, gemini_vars>>

NextScore == TypeOn \/ AssessProbe
SpecScore == InitScore /\ [][NextScore]_vars

(***************************************************************************)
(* ensure_advanced_complexity called on its own                            *)
(***************************************************************************)
AdvancedPasswords ==
  {Chars("wave_3ea"), <<"m", "U+0398", "v">> \o Chars("_3ea7"),
   <<"U+223F">> \o Chars("ave_0cf9_3ea7"), Chars("WALK_turn-12"), Chars("walkturn_3ea7_0"),
   Chars("walkingturningstepping") \o <<"U+0398">>,
   Chars("walkingturningstepping") \o <<"U+03A9", "U+0398">>}

InitAdvanced ==
  /\ Constructed
  /\ suspended = <<>>
  /\ hashSeed = 0
  /\ pc = "probe"
  /\ probe_input \in AdvancedPasswords
  /\ probe_context \in AssembleModifiers
  /\ probe_output = Unassigned

AdvancedProbe ==
  /\ pc = "probe"
  /\ probe_output' \in ensure_advanced_complexity(probe_input, probe_context)
  /\ pc' = "probed"
  /\ UNCHANGED <<password_generator, hashSeed, call_vars, probe_input, probe_context,
                 thread_vars, gemini_vars>>

NextAdvanced == AdvancedProbe
SpecAdvanced == InitAdvanced /\ [][NextAdvanced]_vars

(***************************************************************************)
(* Properties                                                              *)
(***************************************************************************)
Returned == pc = "returned"
NormalPath == Returned /\ response.generation_method = "advanced_biometric_extraction"
FallbackPath == Returned /\ response.generation_method = "fallback"
StringInputs == pc # "idle" /\ analysis_arg.type = "str" /\ summary_arg.type = "str"
IsHexStr(s) == \A i \in 1..Len(s) : s[i] \in CharSet(HexDigits)
IsDigitStr(s) == \A i \in 1..Len(s) : s[i] \in DigitSet
NoDuplicates(list) == \A i, j \in 1..Len(list) : list[i] = list[j] => i = j

\* C1: every password generate_password returns, on the normal path and on the
\* fallback path alike, has at least 12 and at most 24 characters, whatever the
\* inputs, the random draws, the template drawn and the clock reading are.
C1_PasswordLength ==
  Returned => Len(response.password) >= 12 /\ Len(response.password) <= 24
\* a normal-path result of 22 characters: 20 out of ensure_complexity, then a kinetic
\* and a Greek marker appended by ensure_advanced_complexity
C1_Witness == NormalPath /\ Len(response.password) = 22

\* C2: when a step of the pipeline raises, generate_password still returns a result:
\* generation_method "fallback", strength "Medium", the exception's message under
\* components.error, and the password "Move" + 8 hex characters + the hour in one or
\* two digits + "!".
FallbackShape(password) ==
  \E digits \in 1..2 :
    /\ Len(password) = 4 + 8 + digits + 1
    /\ SubSeq(password, 1, 4) = Chars("Move")
    /\ IsHexStr(SubSeq(password, 5, 12))
    /\ IsDigitStr(SubSeq(password, 13, 12 + digits))
    /\ password[Len(password)] = "!"
C2_FallbackResult ==
  /\ pc = "except" => exception # Unassigned
  /\ exception # Unassigned => pc \in {"except", "returned"}
  /\ (Returned /\ exception # Unassigned) =>
        /\ response.generation_method = "fallback"
        /\ response.strength = "Medium"
        /\ response.components.error = exception
        /\ response.components.fallback_used
        /\ FallbackShape(response.password)
\* extraction of the summary raised on None and the fallback was returned at hour 23
C2_Witness ==
  /\ FallbackPath
  /\ summary_arg = None
  /\ response.components.error = NoneLowerMessage
  /\ Len(response.password) = 15

\* C3: with both inputs the empty string, generate_password returns on the normal
\* path with empty actions, descriptors and qualifiers, and its modifiers are those of
\* the empty-text branches: movement_entropy is exactly a random 2-byte hex
\* pattern_hash with complexity "low", behavioral_signature is exactly
\* complexity_score "0" with confidence "low".
EmptyInputs == pc # "idle" /\ analysis_arg = PyStr("") /\ summary_arg = PyStr("")
C3_EmptyInputs ==
  (Returned /\ EmptyInputs) =>
     /\ response.generation_method = "advanced_biometric_extraction"
     /\ response.components.semantic_elements.actions = <<>>
     /\ response.components.semantic_elements.descriptors = <<>>
     /\ response.components.semantic_elements.qualifiers = <<>>
     /\ LET movement_entropy == response.components.contextual_modifiers.movement_entropy
            behavioral_signature == response.components.contextual_modifiers.behavioral_signature
        IN  /\ DOMAIN movement_entropy = {"pattern_hash", "complexity"}
            /\ movement_entropy.pattern_hash \in token_hex(2)
            /\ movement_entropy.complexity = "low"
            /\ behavioral_signature = [complexity_score |-> <<"0">>, confidence |-> "low"]
\* the result for two empty inputs: the merged text is the separator " ", which is not
\* empty, so the modifiers come from the branches for non-empty text
C3_Witness ==
  /\ Returned /\ EmptyInputs
  /\ response.components.semantic_elements.full_text = <<" ">>
  /\ "movement_types" \in DOMAIN response.components.contextual_modifiers.movement_entropy
  /\ response.components.contextual_modifiers.behavioral_signature.signature = Chars("GEN")

\* C4: for two string inputs, empty and whitespace-only ones included, no step of the
\* pipeline raises: the except clause is never entered and every result carries
\* generation_method "advanced_biometric_extraction".
C4_NoRaiseOnStrings ==
  StringInputs =>
     /\ pc # "except"
     /\ exception = Unassigned
     /\ Returned => response.generation_method = "advanced_biometric_extraction"
\* a whitespace-only input, whose merged text has no word (text_words = 0), returned
\* on the normal path
C4_Witness ==
  /\ NormalPath
  /\ analysis_arg = PyStr("   ")
  /\ response.components.extraction_analysis.utilization_rate = <<0, 1>>

\* C5: for a non-empty text, movement_entropy.complexity follows the number n of
\* biometric-vocabulary terms found in it: "high" for n > 5, "medium" for 3 <= n <= 5,
\* "low" for n <= 2.
BiometricTerms ==
  UNION {Range(password_generator.movement_biometrics[c])
         : c \in 1..Len(password_generator.movement_biometrics)}
TermsMatched(text) == Cardinality({term \in BiometricTerms : Contains(Lower(text), term)})
C5_ComplexityThresholds ==
  (pc = "probed" /\ probe_input # <<>>) =>
     LET n == TermsMatched(probe_input)
     IN  /\ probe_output.movement_types = n
         /\ n > 5 => probe_output.complexity = "high"
         /\ (n >= 3 /\ n <= 5) => probe_output.complexity = "medium"
         /\ n <= 2 => probe_output.complexity = "low"
\* a text with exactly 5 terms, classified "medium"
C5_Witness ==
  /\ pc = "probed"
  /\ TermsMatched(probe_input) = 5
  /\ probe_output.complexity = "medium"

\* C7: extract_semantic_elements called twice on the same text returns the same
\* elements: the same actions, descriptors and qualifiers in the same order and the
\* same full_text, also when the text holds more candidates than the slices keep.
BothExtracted == pc \in {"merge", "effectiveness", "modifiers", "assemble", "assess", "returned"}
                 /\ exception = Unassigned
C8_MergedCaps ==
  NormalPath =>
     LET merged == response.components.semantic_elements
     IN  /\ Len(merged.actions) <= 3 /\ NoDuplicates(merged.actions)
         /\ Len(merged.descriptors) <= 3 /\ NoDuplicates(merged.descriptors)
         /\ Len(merged.qualifiers) <= 2 /\ NoDuplicates(merged.qualifiers)
\* a result whose two inputs each yielded the same single action, kept once
C8_Witness ==
  /\ NormalPath
  /\ Len(summary_elements.actions) = 1
  /\ summary_elements.actions = analysis_elements.actions
  /\ response.components.semantic_elements.actions = summary_elements.actions

\* C9: for the detailed text "the person is walking forward with smooth arm movements,
\* turning left" and the summary "a smooth walking motion", the merged elements have
\* an action containing "walk", the descriptors "arm", "left" and "forward", and the
\* qualifier "smooth".
C9_Scenario ==
  (NormalPath /\ analysis_arg = ScenarioRequest[1] /\ summary_arg = ScenarioRequest[2]) =>
     LET merged == response.components.semantic_elements
     IN  /\ \E i \in 1..Len(merged.actions) : Contains(merged.actions[i], Chars("walk"))
         /\ InList(Chars("arm"), merged.descriptors)
         /\ InList(Chars("left"), merged.descriptors)
         /\ InList(Chars("forward"), merged.descriptors)
         /\ InList(Chars("smooth"), merged.qualifiers)
\* the scenario's result with "smooth" among the three descriptors kept, so that one
\* of "arm", "left", "forward" is cut by the slice
C9_Witness ==
  /\ NormalPath
  /\ InList(Chars("smooth"), response.components.semantic_elements.descriptors)
  /\ Len(response.components.semantic_elements.descriptors) = 3

\* C10: the strength assess_password_strength returns is fixed by its score:
\* "Exceptional" from 12 up, "Very Strong" for 9..11, "Strong" for 6..8, "Medium" for
\* 4..5, "Weak" for 3 and below, negative scores included; no other value is returned.
C10_StrengthTiers ==
  pc = "probed" =>
     LET score == probe_output.score
         strength == probe_output.strength
     IN  /\ strength \in {"Exceptional", "Very Strong", "Strong", "Medium", "Weak"}
         /\ strength = "Exceptional" <=> score >= 12
         /\ strength = "Very Strong" <=> (score >= 9 /\ score <= 11)
         /\ strength = "Strong" <=> (score >= 6 /\ score <= 8)
         /\ strength = "Medium" <=> (score >= 4 /\ score <= 5)
         /\ strength = "Weak" <=> score <= 3
\* a password of three spaces: nothing scores, the repeated character costs a point
C10_Witness ==
  /\ pc = "probed"
  /\ probe_input = <<" ", " ", " ">>
  /\ probe_output.score = 0 - 1
  /\ probe_output.strength = "Weak"

\* C11: however the generate_password calls of concurrent threads interleave on the
\* shared instance, no call writes a field of the generator (it stays as __init__
\* built it), and the result a call returns is one that its own arguments, its own
\* clock reading and its own random draws give, whatever the other calls did in
\* between.
OwnResult ==
  /\ (pc = "returned" /\ exception = Unassigned) =>
        /\ response.components.semantic_elements =
             combine_elements(hashSeed,
                              extract_semantic_elements(hashSeed, summary_arg.value),
                              extract_semantic_elements(hashSeed, analysis_arg.value))
        /\ \E now \in Clock, session \in token_hex(3) :
             response.components.contextual_modifiers =
               generate_contextual_modifiers(hashSeed, combined_elements.full_text,
                                             now, <<>>, session)
        /\ response.password \in
             {a.password : a \in assemble_password(response.components.semantic_elements,
                                                   response.components.contextual_modifiers)}
        /\ response.strength_analysis =
             assess_password_strength(response.password, response.components.contextual_modifiers)
  /\ (pc = "returned" /\ exception # Unassigned) =>
        /\ response.components.error = NoneLowerMessage
        /\ \E token \in token_hex(4), now \in Clock :
             response.password = Chars("Move") \o token \o Str(now.hour) \o Chars("!")
C11_NoSharedWrites ==
  /\ password_generator = MovementPasswordGenerator
  /\ OwnResult
\* the running call has returned on the normal path while a call with other arguments,
\* started before it returned, waits in its except clause
C11_Witness ==
  /\ pc = "returned" /\ exception = Unassigned
  /\ Len(suspended) >= 1
  /\ suspended[1].pc = "except"
  /\ suspended[1].analysis_arg # analysis_arg

\* C12: whatever string ensure_complexity is given, its result holds a punctuation
\* symbol of the special set, a digit and an upper-case ASCII letter, and has 12 to 20
\* characters.
C12_BaselineComplexity ==
  pc = "probed" =>
     /\ HasAny(probe_output, SpecialChars)
     /\ HasAny(probe_output, DigitSet)
     /\ HasAny(probe_output, UpperSet)
     /\ Len(probe_output) >= 12 /\ Len(probe_output) <= 20
\* the password "3ea7w4v3_" has no upper-case letter and starts with a digit, whose
\* upper() is the digit itself: the result still has no upper-case letter
C12_Witness ==
  /\ pc = "probed"
  /\ probe_context \o probe_input = Chars("3ea7w4v3_")
  /\ ~HasAny(probe_output, UpperSet)
  /\ Len(probe_output) = 13

\* C13: assemble_password draws its template from the high-security set exactly when
\* behavioral confidence is high or medium, movement complexity is high or medium and
\* at least 2 actions were extracted; otherwise it draws from the medium-security set;
\* no template belongs to both sets.
C13_TemplateSelection ==
  /\ Range(high_security_templates) \cap Range(medium_security_templates) = {}
  /\ pc = "probed" =>
       LET rich == /\ probe_context.behavioral_signature.confidence \in {"high", "medium"}
                   /\ probe_context.movement_entropy.complexity \in {"high", "medium"}
                   /\ Len(probe_input.actions) >= 2
       IN  /\ rich => probe_output.template \in Range(high_security_templates)
           /\ ~rich => probe_output.template \in Range(medium_security_templates)
\* exactly 2 actions with medium confidence and medium complexity: a high-security
\* template was drawn
C13_Witness ==
  /\ pc = "probed"
  /\ Len(probe_input.actions) = 2
  /\ probe_context.behavioral_signature.confidence = "medium"
  /\ probe_context.movement_entropy.complexity = "medium"
  /\ probe_output.template = <<"biometric", "action", "_", "entropy", "_", "behavioral">>

\* C14 as stated: extract_semantic_elements does not truncate: it returns every
\* deduplicated action, descriptor and qualifier found in its text, the 3/3/2 caps
\* being applied by the merge only.
AnalysisExtracted == pc \in {"extract_summary", "merge"}
C14_ExtractionUncut ==
  AnalysisExtracted =>
     LET text == Lower(analysis_arg.value)
     IN  /\ analysis_elements.actions = _extract_actions_dynamically(hashSeed, text)
         /\ analysis_elements.descriptors = _extract_contextual_descriptors(hashSeed, text)
         /\ analysis_elements.qualifiers = _extract_movement_qualifiers(hashSeed, text)
\* C14 as amended: extract_semantic_elements returns the first 3 actions, the first 3
\* descriptors and the first 2 qualifiers of the deduplicated lists, in the order of
\* those lists, and the lower-cased text; the merge applies the 3/3/2 caps once more.
C14_ExtractionCapped ==
  /\ AnalysisExtracted =>
       LET text == Lower(analysis_arg.value)
           found_actions == _extract_actions_dynamically(hashSeed, text)
           found_descriptors == _extract_contextual_descriptors(hashSeed, text)
           found_qualifiers == _extract_movement_qualifiers(hashSeed, text)
           FirstOf(list, cap) == SubSeq(list, 1, IF Len(list) < cap THEN Len(list) ELSE cap)
       IN  /\ analysis_elements.actions = FirstOf(found_actions, 3)
           /\ analysis_elements.descriptors = FirstOf(found_descriptors, 3)
           /\ analysis_elements.qualifiers = FirstOf(found_qualifiers, 2)
           /\ analysis_elements.full_text = text
  /\ pc = "effectiveness" =>
       /\ Len(combined_elements.actions) <= 3
       /\ Len(combined_elements.descriptors) <= 3
       /\ Len(combined_elements.qualifiers) <= 2
\* the detailed text holds 7 descriptors and 3 qualifiers; its extraction kept 3 and 2
C14_Witness ==
  /\ pc = "extract_summary"
  /\ Len(_extract_contextual_descriptors(hashSeed, Lower(analysis_arg.value))) = 7
  /\ Len(_extract_movement_qualifiers(hashSeed, Lower(analysis_arg.value))) = 3
  /\ Len(analysis_elements.descriptors) = 3
  /\ Len(analysis_elements.qualifiers) = 2

\* C15: the merge gives the summary priority: in each merged field the entries that
\* come from the summary stand before the entries found in the detailed analysis
\* only, so a summary that yields no more entries than the field's cap has all of
\* them in the merged field.
SummaryFirst(merged, from_summary, cap) ==
  /\ Len(from_summary) <= cap => \A i \in 1..Len(from_summary) : InList(from_summary[i], merged)
  /\ \A i, j \in 1..Len(merged) :
       (i < j /\ InList(merged[j], from_summary)) => InList(merged[i], from_summary)
C15_SummaryPriority ==
  NormalPath =>
     LET merged == response.components.semantic_elements
     IN  /\ SummaryFirst(merged.actions, summary_elements.actions, 3)
         /\ SummaryFirst(merged.descriptors, summary_elements.descriptors, 3)
         /\ SummaryFirst(merged.qualifiers, summary_elements.qualifiers, 2)
\* the summary "lift" yields the one action lift, the detailed text three others; the
\* merged actions are the three of the detailed text, lift is cut
C15_Witness ==
  /\ NormalPath
  /\ summary_elements.actions = <<Chars("lift")>>
  /\ Len(response.components.semantic_elements.actions) = 3
  /\ ~InList(Chars("lift"), response.components.semantic_elements.actions)

\* C16: temporal and compound_modifier are characters [0:4] and [4:8] of one hash of
\* compound_time, the movement pattern_hash, the behavioral complexity_score and the
\* sub-second component, and of nothing else: two calls that agree on these four
\* values return the same temporal and compound_modifier whatever their weekday, day
\* of the month and month are; session is a draw of its own.
CompoundTime(now) == Str(now.hour) \o Str(now.minute) \o Str(now.second)
MicroTime(now) == SubSeq(Str(now.microsecond), 1,
                         IF Len(Str(now.microsecond)) < 3 THEN Len(Str(now.microsecond)) ELSE 3)
SameSources(i, j) ==
  /\ CompoundTime(probe_context[i]) = CompoundTime(probe_context[j])
  /\ MicroTime(probe_context[i]) = MicroTime(probe_context[j])
  /\ probe_output[i].movement_entropy.pattern_hash = probe_output[j].movement_entropy.pattern_hash
  /\ probe_output[i].behavioral_signature.complexity_score
       = probe_output[j].behavioral_signature.complexity_score
C16_HashSources ==
  /\ \A i \in 1..Len(probe_output) :
       /\ probe_output[i].temporal \o probe_output[i].compound_modifier =
            sha256_hexdigest(CompoundTime(probe_context[i])
                             \o probe_output[i].movement_entropy.pattern_hash
                             \o probe_output[i].behavioral_signature.complexity_score
                             \o MicroTime(probe_context[i]))
       /\ Len(probe_output[i].temporal) = 4 /\ Len(probe_output[i].compound_modifier) = 4
       /\ probe_output[i].session \in token_hex(3)
  /\ \A i, j \in 1..Len(probe_output) :
       SameSources(i, j) =>
         /\ probe_output[i].temporal = probe_output[j].temporal
         /\ probe_output[i].compound_modifier = probe_output[j].compound_modifier
\* two calls at 1:23:07 and 12:03:07 of different dates, microseconds 123456 and
\* 123999: the same four values, the same temporal and compound_modifier, but
\* different session values
C16_Witness ==
  /\ Len(probe_output) = 2
  /\ probe_context[1].hour = 1 /\ probe_context[2].hour = 12
  /\ probe_context[1].microsecond # probe_context[2].microsecond
  /\ probe_context[1].weekday # probe_context[2].weekday
  /\ probe_context[1].month # probe_context[2].month
  /\ SameSources(1, 2)
  /\ probe_output[1].temporal = probe_output[2].temporal
  /\ probe_output[1].session # probe_output[2].session

\* C17 as stated: for a non-empty text, complexity_score is 2*c + 3*e + 1*p for the
\* numbers c, e, p of coordination, energy and precision terms in the text, each of
\* the three vocabularies having 5 terms, so at most 30; confidence is high above 8,
\* medium from 5 to 8, low up to 4; the signature is made of the distinct tags among
\* C, E, P that matched, or is "GEN" when none did.
TermsIn(text, indicators) ==
  Cardinality({k \in 1..Len(indicators) : Contains(Lower(text), indicators[k])})
ScoreRules(text, result) ==
  LET c == TermsIn(text, coordination_indicators)
      e == TermsIn(text, energy_indicators)
      p == TermsIn(text, precision_indicators)
      score == 2 * c + 3 * e + 1 * p
      tags == (IF c > 0 THEN {"C"} ELSE {}) \cup (IF e > 0 THEN {"E"} ELSE {})
              \cup (IF p > 0 THEN {"P"} ELSE {})
  IN  /\ result.complexity_score = Str(score)
      /\ score > 8 => result.confidence = "high"
      /\ (score >= 5 /\ score <= 8) => result.confidence = "medium"
      /\ score <= 4 => result.confidence = "low"
      /\ tags # {} => (Range(result.signature) = tags /\ Len(result.signature) = Cardinality(tags))
      /\ tags = {} => result.signature = Chars("GEN")
C17_BehavioralScore ==
  (pc = "probed" /\ probe_input # <<>>) =>
     /\ ScoreRules(probe_input, probe_output)
     /\ TermsIn(probe_input, coordination_indicators) <= 5
     /\ TermsIn(probe_input, energy_indicators) <= 5
     /\ TermsIn(probe_input, precision_indicators) <= 5
     /\ 2 * TermsIn(probe_input, coordination_indicators)
        + 3 * TermsIn(probe_input, energy_indicators)
        + TermsIn(probe_input, precision_indicators) <= 30
\* C17 as amended: the same rules, with 5 coordination terms, 6 energy terms and 5
\* precision terms, so a score of at most 2*5 + 3*6 + 5 = 33.
C17_BehavioralScoreAmended ==
  /\ Len(coordination_indicators) = 5
  /\ Len(energy_indicators) = 6
  /\ Len(precision_indicators) = 5
  /\ (pc = "probed" /\ probe_input # <<>>) =>
       /\ ScoreRules(probe_input, probe_output)
       /\ 2 * TermsIn(probe_input, coordination_indicators)
          + 3 * TermsIn(probe_input, energy_indicators)
          + TermsIn(probe_input, precision_indicators) <= 33
\* a text with all 16 terms: score 33, confidence high, all three tags
C17_Witness ==
  /\ pc = "probed"
  /\ TermsIn(probe_input, energy_indicators) = 6
  /\ probe_output.complexity_score = Chars("33")
  /\ probe_output.confidence = "high"
  /\ Range(probe_output.signature) = {"C", "E", "P"}

\* C18: for a non-empty text that the movement-word shortcut does not answer,
\* apply_entropy_randomization returns a string as long as the text, which differs
\* from the lower-cased text in at most max(1, floor(len(text) * entropy_level))
\* positions; nothing changes after the last substitution the cap allows.
ShortcutAnswers ==
  /\ probe_context.context = "movement"
  /\ Lower(probe_input) \in DOMAIN password_generator.char_substitutions.contextual
Cap == IF (Len(probe_input) * probe_context.entropy_percent) \div 100 > 1
       THEN (Len(probe_input) * probe_context.entropy_percent) \div 100 ELSE 1
Differing == {i \in 1..Len(probe_input) : i <= Len(probe_output) /\ probe_output[i] # Lower(probe_input)[i]}
C18_BoundedSubstitutions ==
  (pc = "probed" /\ probe_input # <<>> /\ ~ShortcutAnswers) =>
     /\ Len(probe_output) = Len(probe_input)
     /\ Cardinality(Differing) <= Cap
     /\ Cardinality(Differing) = Cap =>
          \A i \in 1..Len(probe_input) :
             (\A j \in Differing : j < i) => probe_output[i] = Lower(probe_input)[i]
\* the one-character text sharp s, upper-cased at index 0: the result has 2 characters
C18_Witness ==
  /\ pc = "probed"
  /\ probe_input = <<SharpS>>
  /\ probe_output = <<"S", "S">>

\* C19: retry_with_backoff with max_retries >= 1 calls func at most max_retries times;
\* every call but the first comes right after a sleep that came right after a call
\* that raised a retryable error; a call that raised a non-retryable error is the last
\* thing done and that same error is raised; a call that returned is the last thing
\* done and its value is returned; after max_retries retryable failures the last thing
\* done is the call, not a sleep, and an exception naming the attempts is raised.
IsCall(i) == retry_trace[i].kind = "call"
RaisedRetryable(i) ==
  /\ IsCall(i)
  /\ retry_trace[i].outcome.type = "APIError"
  /\ IsRetryable(retry_trace[i].outcome.value)
RetryEnded == gemini_pc \in {"handle", "models", "returned", "raised"} /\ retry_result # Unassigned
C19_BoundedRetries ==
  max_retries >= 1 =>
    /\ Cardinality({i \in DOMAIN retry_trace : IsCall(i)}) <= max_retries
    /\ \A i \in DOMAIN retry_trace :
         /\ (IsCall(i) /\ i > 1) => retry_trace[i - 1].kind = "sleep"
         /\ retry_trace[i].kind = "sleep" => i > 1 /\ RaisedRetryable(i - 1)
         /\ (IsCall(i) /\ ~RaisedRetryable(i)) =>
               /\ i = Len(retry_trace)
               /\ retry_result = IF retry_trace[i].outcome.type = "APIError"
                                 THEN RaiseOf(retry_trace[i].outcome)
                                 ELSE ReturnOf(retry_trace[i].outcome)
    /\ RetryEnded =>
         /\ retry_trace # <<>>
         /\ IsCall(Len(retry_trace))
         /\ RaisedRetryable(Len(retry_trace)) =>
              /\ Cardinality({i \in DOMAIN retry_trace : IsCall(i)}) = max_retries
              /\ retry_result.how = "raise"
              /\ retry_result.value.type = "Exception"
              /\ retry_result.value.value =
                   Chars("All ") \o Str(max_retries) \o Chars(" attempts failed. Last error: ")
                     \o retry_trace[Len(retry_trace)].outcome.value
\* three attempts allowed, three retryable failures with a sleep after the first two
\* only, and the exception raised
C19_Witness ==
  /\ max_retries = 3
  /\ gemini_pc = "handle"
  /\ Len(retry_trace) = 5
  /\ RaisedRetryable(1) /\ RaisedRetryable(3) /\ RaisedRetryable(5)
  /\ retry_trace[2] = [kind |-> "sleep", outcome |-> 2]
  /\ retry_trace[4] = [kind |-> "sleep", outcome |-> 4]
  /\ retry_result.how = "raise"

\* C20: the requests of analyze_with_gemini go to the models in the order of
\* models_to_try; a model is requested only after each earlier model was requested
\* and its last request failed; a request that succeeds is the last one and its
\* response is what is returned; an exception is raised only after requests to all
\* three models failed, and its message ends with the error the retries of the last
\* model raised; there are at most 3 * max_retries requests.
ModelIndex(model_name) == CHOOSE k \in 1..Len(models_to_try) : models_to_try[k] = model_name
Failed(i) == requests[i].outcome.type = "APIError"
RequestsOf(k) == {i \in DOMAIN requests : ModelIndex(requests[i].model) = k}
\* what retry_with_backoff raises when the request i was its last call
ErrorAfter(i) ==
  IF IsRetryable(requests[i].outcome.value)
  THEN Chars("All ") \o Str(max_retries) \o Chars(" attempts failed. Last error: ")
         \o requests[i].outcome.value
  ELSE requests[i].outcome.value
C20_ModelFallback ==
  /\ Len(requests) <= 3 * max_retries
  /\ \A i, j \in DOMAIN requests :
       i < j => ModelIndex(requests[i].model) <= ModelIndex(requests[j].model)
  /\ \A j \in DOMAIN requests : \A k \in 1..(ModelIndex(requests[j].model) - 1) :
       \E i \in RequestsOf(k) :
          /\ i < j
          /\ Failed(i)
          /\ \A h \in RequestsOf(k) : h <= i
  /\ \A i \in DOMAIN requests :
       ~Failed(i) =>
          /\ i = Len(requests)
          /\ requests[i].outcome = GenerateContentResponse(requests[i].model)
          /\ gemini_pc \in {"handle", "returned"}
          /\ gemini_pc = "returned" => gemini_result = ReturnOf(requests[i].outcome)
  /\ (gemini_pc = "returned" /\ requests # <<>>) => ~Failed(Len(requests))
  /\ gemini_pc = "raised" =>
       /\ \A k \in 1..Len(models_to_try) : RequestsOf(k) # {}
       /\ \A i \in DOMAIN requests : Failed(i)
       /\ ModelIndex(requests[Len(requests)].model) = Len(models_to_try)
       /\ gemini_result.how = "raise"
       /\ gemini_result.value.type = "Exception"
       /\ gemini_result.value.value =
            Chars("All models failed. Last error: ") \o ErrorAfter(Len(requests))
\* the first model fails at once with a non-retryable error, the second uses up its
\* two attempts, the third answers and its response is returned
C20_Witness ==
  /\ max_retries = 2
  /\ gemini_pc = "returned"
  /\ Len(requests) = 4
  /\ requests[1] = [model |-> models_to_try[1], outcome |-> APIError(Chars("404 not found"))]
  /\ RequestsOf(2) = {2, 3}
  /\ gemini_result = ReturnOf(GenerateContentResponse(models_to_try[3]))

\* C21: for every max_retries, 0 included, retry_with_backoff ends either returning
\* the value of a call of func that returned, or raising; it never returns without
\* func having returned.
C21_ReturnsOnlySuccess ==
  (gemini_pc = "handle" /\ retry_result.how = "return") =>
     /\ retry_trace # <<>>
     /\ IsCall(Len(retry_trace))
     /\ retry_trace[Len(retry_trace)].outcome.type = "GenerateContentResponse"
     /\ retry_result.value = retry_trace[Len(retry_trace)].outcome
\* max_retries is 0: no call of func was made and None was returned
C21_Witness ==
  /\ max_retries = 0
  /\ gemini_pc = "handle"
  /\ retry_trace = <<>>
  /\ requests = <<>>
  /\ retry_result = ReturnOf(None)

\* C22: the score assess_password_strength returns is never above the max_score
\* returned with it, whatever the password and the contextual data.
C22_ScoreWithinMax ==
  pc = "probed" => probe_output.score <= probe_output.max_score
\* 17 distinct characters of all five kinds, high confidence and complexity: score 17
C22_Witness ==
  /\ pc = "probed"
  /\ probe_input = ScoreBase \o <<"k", "j", "h", "U+0398">>
  /\ probe_context = ContextOf("high", "high")
  /\ probe_output.score = 17
  /\ probe_output.max_score = 15

\* C23: every template assemble_password draws names only slots among action,
\* modifier, biometric, temporal, entropy, behavioral, random and signature, all of
\* which the components hold, so rendering raises no KeyError and the four-slot
\* fallback template of _dynamic_password_assembly is not rendered.
SuppliedSlots ==
  {"action", "modifier", "biometric", "temporal", "entropy", "behavioral", "random", "signature"}
SlotsOf(template) == {template[i] : i \in 1..Len(template)} \ {"_"}
C23_TemplateSlotsSupplied ==
  /\ \A k \in 1..Len(high_security_templates) :
        SlotsOf(high_security_templates[k]) \subseteq SuppliedSlots
  /\ \A k \in 1..Len(medium_security_templates) :
        SlotsOf(medium_security_templates[k]) \subseteq SuppliedSlots
  /\ pc = "probed" =>
       /\ SlotsOf(probe_output.template) \subseteq SuppliedSlots
       /\ ~probe_output.fallback_template
\* no action and low confidence: the medium-security template that starts with the
\* modifier slot was drawn and rendered
C23_Witness ==
  /\ pc = "probed"
  /\ probe_input.actions = <<>>
  /\ probe_output.template = medium_security_templates[3]
  /\ ~probe_output.fallback_template
  /\ "modifier" \in SlotsOf(probe_output.template)

\* C24: every password ensure_advanced_complexity returns holds a character of the
\* Greek set, and one of the kinetic set too when behavioral confidence is high; it
\* has at least the minimum length of its complexity level and at most 24 characters,
\* so neither the padding nor the cut takes a marker away.
C24_MarkersKept ==
  pc = "probed" =>
     /\ HasAny(probe_output, {"U+0398", "U+2211", "U+03A8", "U+03B1", "U+03B2", "U+03B3",
                              "U+03B4", "U+03B5"})
     /\ probe_context.behavioral_signature.confidence = "high" =>
          HasAny(probe_output, {"U+03A9", "U+223F", "U+21BB", "U+21BA", "U+2195", "U+2191",
                                "U+2193", "U+2192"})
     /\ Len(probe_output) >= MinLength(probe_context.movement_entropy.complexity)
     /\ Len(probe_output) <= 24
\* a password of 24 characters whose markers are its last two: the baseline pass cuts
\* them off with everything after the 20th character, and both are appended again
C24_Witness ==
  /\ pc = "probed"
  /\ Len(probe_input) = 24
  /\ probe_input[23] = "U+03A9" /\ probe_input[24] = "U+0398"
  /\ probe_context.behavioral_signature.confidence = "high"
  /\ Len(probe_output) = 22
  /\ probe_output[21] \in KineticChars
  /\ probe_output[22] \in GreekChars

====
